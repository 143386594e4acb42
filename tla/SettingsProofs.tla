--------------------------- MODULE SettingsProofs ---------------------------
(***************************************************************************)
(* For any texts, indices and networks a user may write and any settings:  *)
(* vaults of different schemes, key indices or keys share no secret, and a *)
(* command opens the vault its settings name.                              *)
(***************************************************************************)
EXTENDS Settings, TLAPS

\* xi is one value, and tells which material and indices it was made of.
LEMMA XiTellsMaterial ==
    ASSUME NEW s \in Scheme, NEW t \in Scheme, NEW m, NEW n,
           NEW a, NEW b, NEW i, NEW j,
           NEW x \in XiFrom(s, m, a, i), x \in XiFrom(t, n, b, j)
    PROVE  /\ a = b /\ i = j /\ m.secret = n.secret
           /\ (m.kind = "Raw") <=> (n.kind = "Raw")
           /\ m.kind # "Raw" => s = t
  <1> DEFINE raw(mm, aa, ii) == <<XI_DOMAIN_RAW, aa, ii, mm.secret>>
             tree(ss, mm, aa, ii) == <<XI_DOMAIN, <<mm.secret, Levels(ss, aa, ii)>>>>
  <1>1. /\ x = IF m.kind = "Raw" THEN raw(m, a, i) ELSE tree(s, m, a, i)
        /\ x = IF n.kind = "Raw" THEN raw(n, b, j) ELSE tree(t, n, b, j)
    BY DEF XiFrom, Derived
  <1>2. \A mm, aa, ii, ss, nn, bb, jj : raw(mm, aa, ii) # tree(ss, nn, bb, jj)
    BY DEF XI_DOMAIN, XI_DOMAIN_RAW
  <1>3. (m.kind = "Raw") <=> (n.kind = "Raw")
    BY <1>1, <1>2
  <1>4. CASE m.kind = "Raw"
    BY <1>1, <1>3, <1>4
  <1>5. CASE m.kind # "Raw"
    <2>1. /\ m.secret = n.secret
          /\ Levels(s, a, i) = Levels(t, b, j)
      BY <1>1, <1>3, <1>5
    <2>2. a = b /\ i = j /\ SchemeIndex[s] = SchemeIndex[t]
      BY <2>1 DEF Levels
    <2>3. s = t
      BY <2>2 DEF Scheme, SchemeIndex
    <2> QED
      BY <1>3, <1>5, <2>1, <2>2, <2>3
  <1> QED
    BY <1>4, <1>5

\* SLH-DSA keys of two parameter sets, or of two xi, have no seed in common,
\* and none of them is an xi.
LEMMA SecretsTellXi ==
    ASSUME NEW s \in Scheme, NEW t \in Scheme, NEW m, NEW n,
           NEW a, NEW b, NEW i, NEW j,
           NEW x \in XiFrom(s, m, a, i), NEW y \in XiFrom(t, n, b, j),
           Secrets(s, x) \cap Secrets(t, y) # {}
    PROVE  s = t /\ x = y
  <1>1. PICK z \in Secrets(s, x) : z \in Secrets(t, y)
    OBVIOUS
  <1>2. \A set, label, xi : <<KeyDomain(set), label, xi>> \notin {x, y}
    BY DEF XiFrom, Derived
  <1>3. CASE s = LmsSha256 \/ t = LmsSha256
    BY <1>1, <1>2, <1>3 DEF Secrets, SeedsFromXi
  <1>4. CASE s # LmsSha256 /\ t # LmsSha256
    <2>1. /\ \E label : z = <<KeyDomain(ParamsFor[s]), label, x>>
          /\ \E label : z = <<KeyDomain(ParamsFor[t]), label, y>>
      BY <1>1, <1>4 DEF Secrets, SeedsFromXi
    <2>2. x = y /\ KeyDomain(ParamsFor[s]) = KeyDomain(ParamsFor[t])
      BY <2>1
    <2>3. ParamsFor[s] = ParamsFor[t]
      BY <2>2 DEF KeyDomain
    <2>4. s = t
      BY <1>4, <2>3 DEF Scheme, SchemeIndex, ParamsFor, LmsSha256
    <2> QED
      BY <2>2, <2>4
  <1> QED
    BY <1>3, <1>4

\* The same vault has the same secrets, and it has some.
LEMMA OneVaultOneXi ==
    ASSUME NEW s, NEW m, NEW n, NEW i,
           NEW x \in XiFrom(s, m, 0, i), NEW y \in XiFrom(s, n, 0, i),
           m.secret = n.secret, (m.kind = "Raw") <=> (n.kind = "Raw")
    PROVE  x = y
  BY DEF XiFrom, Derived

LEMMA SecretsNotEmpty ==
    ASSUME NEW s, NEW x
    PROVE  Secrets(s, x) # {}
  BY DEF Secrets, SeedsFromXi

\* Whatever the settings, an opened vault has the xi of its own fields.
LEMMA OpenedVault ==
    ASSUME NEW f \in Flags, NEW v \in Open(f)
    PROVE  /\ v.scheme \in Scheme
           /\ v.xi \in XiFrom(v.scheme, v.material, 0, v.key_index)
  <1>1. PICK r : \E xi \in XiFrom(f.scheme, r.material, 0, r.key_index),
                    prefix \in PrefixFor(r.network) :
          v = [scheme |-> f.scheme, material |-> r.material, origin |-> r.origin,
               key_index |-> r.key_index, xi |-> xi,
               prefix |-> prefix, node |-> NodeFor(r.network)]
    BY DEF Open
  <1>2. f.scheme \in Scheme
    BY DEF Flags
  <1> QED
    BY <1>1, <1>2

\* In every state, two vaults a command may open share a secret exactly when
\* they are one.
LEMMA SecretsApart == SecretsTellVaultsApart
  <1> SUFFICES ASSUME NEW f \in Flags, NEW g \in Flags, NEW v \in Open(f), NEW w \in Open(g)
               PROVE  Identity(v) = Identity(w)
                        <=> Secrets(v.scheme, v.xi) \cap Secrets(w.scheme, w.xi) # {}
    BY DEF SecretsTellVaultsApart
  <1>1. /\ v.scheme \in Scheme /\ v.xi \in XiFrom(v.scheme, v.material, 0, v.key_index)
        /\ w.scheme \in Scheme /\ w.xi \in XiFrom(w.scheme, w.material, 0, w.key_index)
    BY OpenedVault
  <1>2. ASSUME Identity(v) = Identity(w)
        PROVE  Secrets(v.scheme, v.xi) \cap Secrets(w.scheme, w.xi) # {}
    <2>1. /\ v.scheme = w.scheme /\ v.key_index = w.key_index
          /\ v.material.secret = w.material.secret
          /\ (v.material.kind = "Raw") <=> (w.material.kind = "Raw")
      BY <1>2 DEF Identity
    <2>2. v.xi = w.xi
      BY <1>1, <2>1, OneVaultOneXi
    <2> QED
      BY <2>1, <2>2, SecretsNotEmpty
  <1>3. ASSUME Secrets(v.scheme, v.xi) \cap Secrets(w.scheme, w.xi) # {}
        PROVE  Identity(v) = Identity(w)
    <2>1. v.scheme = w.scheme /\ v.xi = w.xi
      BY <1>1, <1>3, SecretsTellXi
    <2>2. /\ v.key_index = w.key_index /\ v.material.secret = w.material.secret
          /\ (v.material.kind = "Raw") <=> (w.material.kind = "Raw")
      BY <1>1, <2>1, XiTellsMaterial
    <2> QED
      BY <2>1, <2>2 DEF Identity
  <1> QED
    BY <1>2, <1>3

(***************************************************************************)
(* Of the vaults the user can open, two share a secret exactly when they   *)
(* have the same scheme, key index and seed or bare key: for every text,   *)
(* index and network the user may write, and every limit on child indices. *)
(* (xi_from of derivation.rs, seeds_from_xi of keygen.rs)                  *)
(***************************************************************************)
THEOREM SecretsTellVaultsApartHolds == Spec => []SecretsTellVaultsApart
  BY SecretsApart, PTL

-----------------------------------------------------------------------------
(***************************************************************************)
(* The state is well-typed.  That the lines of a file form a sequence of   *)
(* lines is what makes appending one to them safe.                         *)
(***************************************************************************)
Typed ==
    /\ DOMAIN environ \subseteq Variable
    /\ \A name \in DOMAIN environ : environ[name] \in Value(name)
    /\ DOMAIN files \subseteq Path
    /\ \A path \in DOMAIN files :
          files[path] \in [lines: Seq(Line \cup {Broken}), private: BOOLEAN]
    /\ restricting \in BOOLEAN /\ (restricting => Default \in DOMAIN files)

LEMMA TypedImpliesTypeOK == Typed => TypeOK
  <1> SUFFICES ASSUME Typed PROVE TypeOK
    OBVIOUS
  <1>1. ASSUME NEW path \in DOMAIN files
        PROVE  /\ files[path].private \in BOOLEAN
               /\ Range(files[path].lines) \subseteq Line \cup {Broken}
    BY DEF Typed, Range
  <1> QED
    BY <1>1 DEF Typed, TypeOK

LEMMA LineTyped ==
    ASSUME NEW line \in Line
    PROVE  line.name \in Variable /\ line.value \in Value(line.name)
  BY DEF Line

\* Adding one binding to a function of typed values.
LEMMA TypedFile ==
    ASSUME Typed, NEW path \in Path,
           NEW file \in [lines: Seq(Line \cup {Broken}), private: BOOLEAN],
           files' = With(files, path, file),
           UNCHANGED environ,
           restricting' \in BOOLEAN, restricting' => restricting \/ path = Default
    PROVE  Typed'
  <1>1. DOMAIN files' = {path} \cup DOMAIN files
    BY DEF With
  <1>2. \A p \in DOMAIN files' : files'[p] = IF p = path THEN file ELSE files[p]
    BY DEF With
  <1> QED
    BY <1>1, <1>2 DEF Typed

LEMMA TypedStep ==
    ASSUME Typed, [Next]_vars
    PROVE  Typed'
  <1>1. ASSUME NEW line \in Line, Export(line) PROVE Typed'
    <2>1. /\ DOMAIN environ' = {line.name} \cup DOMAIN environ
          /\ \A n \in DOMAIN environ' : environ'[n] = IF n = line.name THEN line.value ELSE environ[n]
      BY <1>1 DEF Export, With
    <2> QED
      BY <1>1, <2>1, LineTyped DEF Export, Typed
  <1>2. ASSUME NEW line \in Line \cup {Broken}, NEW path \in Path, Edit(path, line) PROVE Typed'
    <2>1. PICK private \in BOOLEAN :
            files' = With(files, path,
                       [(IF path \in DOMAIN files THEN files[path]
                         ELSE [lines |-> << >>, private |-> private])
                          EXCEPT !.lines = Append(@, line)])
      BY <1>2 DEF Edit
    <2> DEFINE file == IF path \in DOMAIN files THEN files[path]
                       ELSE [lines |-> << >>, private |-> private]
               edited == [file EXCEPT !.lines = Append(@, line)]
    <2>2. file \in [lines: Seq(Line \cup {Broken}), private: BOOLEAN]
      BY DEF Typed
    <2>3. edited \in [lines: Seq(Line \cup {Broken}), private: BOOLEAN]
      <3> HIDE DEF file
      <3>1. file.lines \in Seq(Line \cup {Broken})
        BY <2>2
      <3>2. Append(file.lines, line) \in Seq(Line \cup {Broken})
        BY <3>1
      <3> QED
        BY <2>2, <3>2
    <2>4. files' = With(files, path, edited) /\ UNCHANGED environ /\ UNCHANGED restricting
      BY <1>2, <2>1 DEF Edit
    <2> HIDE DEF edited
    <2>5. restricting' \in BOOLEAN
      BY <2>4 DEF Typed
    <2> QED
      BY <2>3, <2>4, <2>5, TypedFile
  <1>3. ASSUME NEW path \in Path, Chmod(path) PROVE Typed'
    BY <1>3 DEF Chmod, Typed
  <1>4. CASE InitEnvWrite
    <2>1. PICK private \in BOOLEAN :
            files' = With(files, Default, [lines |-> << >>, private |-> private])
      BY <1>4 DEF InitEnvWrite
    <2>2. [lines |-> << >>, private |-> private] \in [lines: Seq(Line \cup {Broken}), private: BOOLEAN]
      OBVIOUS
    <2> QED
      BY <1>4, <2>1, <2>2, TypedFile DEF InitEnvWrite, Path
  <1>5. CASE InitEnvRestrict
    BY <1>5 DEF InitEnvRestrict, Typed
  <1>6. CASE InitEnvKilled
    BY <1>6 DEF InitEnvKilled, Typed
  <1>7. CASE UNCHANGED vars
    BY <1>7 DEF vars, Typed
  <1> QED
    BY <1>1, <1>2, <1>3, <1>4, <1>5, <1>6, <1>7 DEF Next

(***************************************************************************)
(* In every state the environment and the files hold what the user may     *)
(* write, and init-env restricts only a file that is there, for any texts, *)
(* indices and networks and any number of assignments.  (env.rs, main.rs)  *)
(***************************************************************************)
THEOREM SettingsTypeCorrect == Spec => []TypeOK
  <1>1. Init => Typed
    <2>1. DOMAIN << >> = {}
      OBVIOUS
    <2> QED
      BY <2>1 DEF Init, Typed
  <1>2. Typed /\ [Next]_vars => Typed'
    BY TypedStep
  <1> QED
    BY <1>1, <1>2, TypedImpliesTypeOK, PTL DEF Spec

-----------------------------------------------------------------------------
(* The three places a setting may come from. *)

LEMMA AtMostOneElement ==
    ASSUME NEW S, NEW T \in AtMostOne(S), NEW x \in T
    PROVE  T = {x}
  BY DEF AtMostOne

\* No two settings come out of one file.
LEMMA OneLoaded ==
    ASSUME NEW explicit, NEW u \in Load(explicit), NEW v \in Load(explicit)
    PROVE  u = v
  BY DEF Load

\* get asks the environment before the file, and either gives one text.
LEMMA GetIsGiven ==
    ASSUME NEW f, NEW values, NEW name
    PROVE  LET inEnviron == GivenAt("environment", f, values, name)
               inFile    == GivenAt(Default, f, values, name)
           IN  /\ Get(values, name) = IF inEnviron # {} THEN inEnviron ELSE inFile
               /\ inEnviron # {} <=> InEnviron(name)
               /\ inFile # {} <=> name \in DOMAIN values
               /\ Get(values, name) = {} \/ \E text : Get(values, name) = {text}
  <1>1. GivenAt("environment", f, values, name)
          = IF InEnviron(name) THEN {environ[name]} ELSE {}
    BY DEF GivenAt, InEnviron, Default
  <1>2. GivenAt(Default, f, values, name)
          = IF name \in DOMAIN values THEN {values[name]} ELSE {}
    BY DEF GivenAt, Default
  <1> QED
    BY <1>1, <1>2 DEF Get

\* The foremost text is the flag's, or else what get returns.
LEMMA ForemostIsFlagOrGet ==
    ASSUME NEW f, NEW values, NEW name, NEW flag,
           GivenAt("flag", f, values, name) = flag
    PROVE  Foremost(f, values, name) = OrElse(flag, Get(values, name))
  <1> DEFINE g(i) == GivenAt(Places[i], f, values, name)
             at   == {i \in DOMAIN Places : g(i) # {}}
  <1>1. /\ DOMAIN Places = {1, 2, 3}
        /\ Places[1] = "flag" /\ Places[2] = "environment" /\ Places[3] = Default
    BY DEF Places
  <1>2. /\ GivenAt(Places[1], f, values, name) = flag
        /\ Get(values, name) = IF GivenAt(Places[2], f, values, name) # {}
                               THEN GivenAt(Places[2], f, values, name)
                               ELSE GivenAt(Places[3], f, values, name)
    BY <1>1, GetIsGiven
  <1>3. CASE at = {}
    BY <1>1, <1>2, <1>3 DEF Foremost, OrElse
  <1>4. CASE at # {}
    <2>1. PICK i \in at : i = CHOOSE k \in at : \A j \in at : k <= j
      <3>1. \E k \in at : \A j \in at : k <= j
        BY <1>1, <1>4
      <3> QED
        BY <3>1
    <2>2. \A j \in at : i <= j
      <3>1. \E k \in at : \A j \in at : k <= j
        BY <1>1, <1>4
      <3> QED
        BY <2>1, <3>1
    <2>3. Foremost(f, values, name) = GivenAt(Places[i], f, values, name)
      BY <1>4, <2>1 DEF Foremost
    <2> QED
      BY <1>1, <1>2, <2>2, <2>3 DEF OrElse
  <1> QED
    BY <1>3, <1>4

\* A flag is given at most once, so there is at most one foremost text.
LEMMA ForemostOfFlags ==
    ASSUME NEW f \in Flags, NEW values
    PROVE  /\ \A name \in {"MNEMONIC", "MNEMONIC_SLH"} :
                 Foremost(f, values, name) = OrElse(f.mnemonic, Get(values, name))
           /\ \A name \in {"KEY", "KEY_SLH"} :
                 Foremost(f, values, name) = OrElse(f.key, Get(values, name))
           /\ Foremost(f, values, "KEY_INDEX") = OrElse(f.key_index, Get(values, "KEY_INDEX"))
           /\ Foremost(f, values, "NETWORK") = OrElse(f.network, Get(values, "NETWORK"))
  <1>1. /\ \A name \in {"MNEMONIC", "MNEMONIC_SLH"} : GivenAt("flag", f, values, name) = f.mnemonic
        /\ \A name \in {"KEY", "KEY_SLH"} : GivenAt("flag", f, values, name) = f.key
        /\ GivenAt("flag", f, values, "KEY_INDEX") = f.key_index
        /\ GivenAt("flag", f, values, "NETWORK") = f.network
    BY DEF GivenAt, Default
  <1> QED
    BY <1>1, ForemostIsFlagOrGet

LEMMA ForemostIsOne ==
    ASSUME NEW f \in Flags, NEW values, NEW name \in Variable,
           NEW text \in Foremost(f, values, name)
    PROVE  Foremost(f, values, name) = {text}
  <1>1. ASSUME NEW S, NEW flag \in AtMostOne(S),
               Foremost(f, values, name) = OrElse(flag, Get(values, name))
        PROVE  Foremost(f, values, name) = {text}
    <2>1. CASE flag # {}
      BY <1>1, <2>1 DEF OrElse, AtMostOne
    <2>2. CASE flag = {}
      <3>1. Foremost(f, values, name) = Get(values, name)
        BY <1>1, <2>2 DEF OrElse
      <3>2. Get(values, name) = {} \/ \E t : Get(values, name) = {t}
        BY GetIsGiven
      <3> QED
        BY <3>1, <3>2
    <2> QED
      BY <2>1, <2>2
  <1>2. /\ f.mnemonic \in AtMostOne(DOMAIN TextOf) /\ f.key \in AtMostOne(DOMAIN TextOf)
        /\ f.key_index \in AtMostOne(DOMAIN IndexOf) /\ f.network \in AtMostOne(Networks)
    BY DEF Flags
  <1>3. CASE name \in {"MNEMONIC", "MNEMONIC_SLH"}
    BY <1>1, <1>2, <1>3, ForemostOfFlags
  <1>4. CASE name \in {"KEY", "KEY_SLH"}
    BY <1>1, <1>2, <1>4, ForemostOfFlags
  <1>5. CASE name = "KEY_INDEX"
    BY <1>1, <1>2, <1>5, ForemostOfFlags
  <1>6. CASE name = "NETWORK"
    BY <1>1, <1>2, <1>6, ForemostOfFlags
  <1> QED
    BY <1>3, <1>4, <1>5, <1>6 DEF Variable, KeyVariable

\* What a vault was opened from: one loaded file, and what resolve made of it.
LEMMA OpenedFrom ==
    ASSUME NEW f \in Flags, NEW values \in Load(f.env_file), NEW v \in Open(f)
    PROVE  \E k \in Material(f, values), i \in KeyIndex(f, values), n \in Network(f, values) :
             /\ v.material = k.material /\ v.origin = k.origin
             /\ v.key_index = i
             /\ v.node = NodeFor(n) /\ v.prefix \in PrefixFor(n)
  <1>1. PICK u \in Load(f.env_file) : \E r \in Resolve(f, u) :
          \E xi \in XiFrom(f.scheme, r.material, 0, r.key_index), prefix \in PrefixFor(r.network) :
            v = [scheme |-> f.scheme, material |-> r.material, origin |-> r.origin,
                 key_index |-> r.key_index, xi |-> xi,
                 prefix |-> prefix, node |-> NodeFor(r.network)]
    BY DEF Open
  <1>2. PICK r \in Resolve(f, values) :
          \E xi \in XiFrom(f.scheme, r.material, 0, r.key_index), prefix \in PrefixFor(r.network) :
            v = [scheme |-> f.scheme, material |-> r.material, origin |-> r.origin,
                 key_index |-> r.key_index, xi |-> xi,
                 prefix |-> prefix, node |-> NodeFor(r.network)]
    BY <1>1, OneLoaded
  <1>3. PICK k \in Material(f, values), i \in KeyIndex(f, values), n \in Network(f, values) :
          r = [material |-> k.material, origin |-> k.origin, key_index |-> i, network |-> n]
    BY DEF Resolve
  <1> QED
    BY <1>2, <1>3

\* source_of names the place get reads from.
LEMMA SourceIsPlace ==
    ASSUME NEW f, NEW values, NEW name, NEW text \in Get(values, name)
    PROVE  text \in GivenAt(SourceOf(values, name), f, values, name)
  BY GetIsGiven DEF SourceOf

\* The key pair key_vars chooses is the one the schemes of SLH-DSA have of
\* their own, as soon as one of the two is given.
LEMMA KeyVarsChosen ==
    ASSUME NEW f, NEW values
    PROVE  KeyVars(f.scheme, values) =
             IF /\ \E name \in {"MNEMONIC_SLH", "KEY_SLH"}, place \in {"environment", Default} :
                     GivenAt(place, f, values, name) # {}
                /\ f.scheme # LmsSha256
             THEN [mnemonic |-> "MNEMONIC_SLH", key |-> "KEY_SLH"]
             ELSE [mnemonic |-> "MNEMONIC", key |-> "KEY"]
  <1>1. \A name : Get(values, name) # {} <=>
          \E place \in {"environment", Default} : GivenAt(place, f, values, name) # {}
    BY GetIsGiven
  <1> QED
    BY <1>1 DEF KeyVars

LEMMA KeyHonoured ==
    ASSUME NEW f \in Flags, NEW values, NEW k \in Material(f, values),
           NEW v, v.material = k.material, v.origin = k.origin
    PROVE  KeyIsForemost(v, f, values, KeyVars(f.scheme, values))
  <1> DEFINE names    == KeyVars(f.scheme, values)
             mnemonic == OrElse(f.mnemonic, Get(values, names.mnemonic))
             key      == OrElse(f.key, Get(values, names.key))
             Origin(flag, name) ==
               IF flag # {} THEN [place |-> "flag", name |-> name]
               ELSE [place |-> SourceOf(values, name), name |-> name]
  <1>1. /\ names.mnemonic \in {"MNEMONIC", "MNEMONIC_SLH"}
        /\ names.key \in {"KEY", "KEY_SLH"}
        /\ names["mnemonic"] = names.mnemonic /\ names["key"] = names.key
    BY DEF KeyVars
  <1>2. /\ Foremost(f, values, names.mnemonic) = mnemonic
        /\ Foremost(f, values, names.key) = key
    BY <1>1, ForemostOfFlags
  <1>3. /\ GivenAt("flag", f, values, names.mnemonic) = f.mnemonic
        /\ GivenAt("flag", f, values, names.key) = f.key
    BY <1>1 DEF GivenAt, Default
  <1>4. ~(mnemonic # {} /\ key # {})
    BY DEF Material
  <1>5. \/ /\ k.origin = Origin(f.mnemonic, names.mnemonic)
           /\ \E text \in mnemonic : k.material \in FromMnemonic(TextOf[text])
        \/ /\ k.origin = Origin(f.key, names.key)
           /\ \E text \in key : k.material \in ParseKey(TextOf[text])
    BY <1>4 DEF Material
  <1>6. ASSUME NEW name, NEW flag, NEW text \in OrElse(flag, Get(values, name)),
               GivenAt("flag", f, values, name) = flag
        PROVE  /\ Origin(flag, name).name = name
               /\ text \in GivenAt(Origin(flag, name).place, f, values, name)
    <2>1. CASE flag # {}
      BY <1>6, <2>1 DEF OrElse
    <2>2. CASE flag = {}
      BY <1>6, <2>2, SourceIsPlace DEF OrElse
    <2> QED
      BY <2>1, <2>2
  <1>7. CASE /\ k.origin = Origin(f.mnemonic, names.mnemonic)
             /\ \E text \in mnemonic : k.material \in FromMnemonic(TextOf[text])
    <2>1. PICK text \in mnemonic : k.material \in FromMnemonic(TextOf[text])
      BY <1>7
    <2>2. /\ v.origin.name = names["mnemonic"]
          /\ text \in GivenAt(v.origin.place, f, values, names["mnemonic"])
      BY <1>1, <1>3, <1>6, <1>7, <2>1
    <2>3. key = {}
      BY <1>4, <2>1
    <2>4. \A other \in {names.mnemonic, names.key} \ {names["mnemonic"]} :
            Foremost(f, values, other) = {}
      BY <1>1, <1>2, <2>3
    <2>5. /\ text \in Foremost(f, values, names["mnemonic"])
          /\ v.material \in FromMnemonic(TextOf[text])
      BY <1>1, <1>2, <2>1
    <2>6. KeyIsForemost(v, f, values, names)
      <3> HIDE DEF names, mnemonic, key
      <3> QED
        BY <2>2, <2>4, <2>5 DEF KeyIsForemost
    <2> QED
      BY <2>6
  <1>8. CASE /\ k.origin = Origin(f.key, names.key)
             /\ \E text \in key : k.material \in ParseKey(TextOf[text])
    <2>1. PICK text \in key : k.material \in ParseKey(TextOf[text])
      BY <1>8
    <2>2. /\ v.origin.name = names["key"]
          /\ text \in GivenAt(v.origin.place, f, values, names["key"])
      BY <1>1, <1>3, <1>6, <1>8, <2>1
    <2>3. mnemonic = {}
      BY <1>4, <2>1
    <2>4. \A other \in {names.mnemonic, names.key} \ {names["key"]} :
            Foremost(f, values, other) = {}
      BY <1>1, <1>2, <2>3
    <2>5. /\ text \in Foremost(f, values, names["key"])
          /\ v.material \in ParseKey(TextOf[text])
      BY <1>1, <1>2, <2>1
    <2>6. KeyIsForemost(v, f, values, names)
      <3> HIDE DEF names, mnemonic, key
      <3> QED
        BY <2>2, <2>4, <2>5 DEF KeyIsForemost
    <2> QED
      BY <2>6
  <1> QED
    BY <1>5, <1>7, <1>8

LEMMA KeyIndexHonoured ==
    ASSUME NEW f \in Flags, NEW values, NEW i \in KeyIndex(f, values)
    PROVE  LET texts == Foremost(f, values, "KEY_INDEX")
           IN  IF texts = {} THEN i = 0 ELSE \A text \in texts : i \in IndexOf[text]
  <1>1. Foremost(f, values, "KEY_INDEX") = OrElse(f.key_index, Get(values, "KEY_INDEX"))
    BY ForemostOfFlags
  <1>2. CASE Foremost(f, values, "KEY_INDEX") = {}
    BY <1>1, <1>2 DEF KeyIndex
  <1>3. CASE Foremost(f, values, "KEY_INDEX") # {}
    <2>1. PICK text : Foremost(f, values, "KEY_INDEX") = {text}
      BY <1>3, ForemostIsOne DEF Variable
    <2> QED
      BY <1>1, <2>1 DEF KeyIndex
  <1> QED
    BY <1>2, <1>3

\* prefix_for accepts few networks, and connect asks a node of the same one.
LEMMA NetworkHonoured ==
    ASSUME NEW f \in Flags, NEW values, NEW n \in Network(f, values),
           NEW prefix \in PrefixFor(n)
    PROVE  /\ NodeFor(n) = prefix
           /\ (NodeFor(n) = "mainnet") = ("mainnet" \in Foremost(f, values, "NETWORK"))
  <1>1. Network(f, values) = OrElse(Foremost(f, values, "NETWORK"), {"tn10"})
    BY ForemostOfFlags DEF Network
  <1>2. NodeFor(n) = prefix /\ (NodeFor(n) = "mainnet") = (n = "mainnet")
    BY DEF NodeFor, PrefixFor
  <1>3. CASE Foremost(f, values, "NETWORK") = {}
    BY <1>1, <1>2, <1>3 DEF OrElse
  <1>4. CASE Foremost(f, values, "NETWORK") # {}
    <2>1. PICK text : Foremost(f, values, "NETWORK") = {text}
      BY <1>4, ForemostIsOne DEF Variable
    <2> QED
      BY <1>1, <1>2, <2>1 DEF OrElse
  <1> QED
    BY <1>3, <1>4

\* In every state, whatever is opened is opened as the settings say.
LEMMA Honoured == SettingsAreHonoured
  <1> SUFFICES ASSUME NEW f \in Flags, NEW values \in Load(f.env_file), NEW v \in Open(f)
               PROVE  /\ KeyIsForemost(v, f, values, KeyVars(f.scheme, values))
                      /\ LET texts == Foremost(f, values, "KEY_INDEX")
                         IN  IF texts = {} THEN v.key_index = 0
                             ELSE \A text \in texts : v.key_index \in IndexOf[text]
                      /\ v.node = v.prefix
                      /\ (v.node = "mainnet") = ("mainnet" \in Foremost(f, values, "NETWORK"))
    BY KeyVarsChosen DEF SettingsAreHonoured
  <1>1. PICK k \in Material(f, values), i \in KeyIndex(f, values), n \in Network(f, values) :
          /\ v.material = k.material /\ v.origin = k.origin
          /\ v.key_index = i
          /\ v.node = NodeFor(n) /\ v.prefix \in PrefixFor(n)
    BY OpenedFrom
  <1> QED
    BY <1>1, KeyHonoured, KeyIndexHonoured, NetworkHonoured

(***************************************************************************)
(* A command that opens a vault opens that of the foremost key, key index  *)
(* and network it was given, in every state: for every text the user may   *)
(* write, every flag, and every history of edits, exports and init-env.    *)
(* (load and get of env.rs, resolve, key_vars, source_of and connect)      *)
(***************************************************************************)
THEOREM SettingsAreHonouredHolds == Spec => []SettingsAreHonoured
  BY Honoured, PTL
=============================================================================
