------------------------------ MODULE Settings ------------------------------
(***************************************************************************)
(* Which vault a kaspa-vault command opens: vault-cli/src/env.rs and       *)
(* main.rs, with open_vault of slh_cmd.rs, over KeyDerivation.             *)
(*                                                                         *)
(* The user sets variables in the shell, edits a settings file and its     *)
(* permissions, and runs init-env; every command reads all of that anew.   *)
(* What a command would do in a state is an operator, Open: the vault it   *)
(* opens, or nothing where the code fails.  The state is what it reads.    *)
(***************************************************************************)
EXTENDS KeyDerivation, Functions, FiniteSets

CONSTANTS
    TextOf,   \* the key texts the user knows, and what each of them writes
    IndexOf,  \* the indices the user writes, and what they parse to: {} or {n}
    Networks, \* the networks the user writes
    MaxSet,   \* bound: assignments the user makes, in the shell and the file
    MaxFlags  \* bound: flags of a command

\* The variables, without the KASPA_VAULT_ they all start with.
KeyVariable == {"MNEMONIC", "KEY", "MNEMONIC_SLH", "KEY_SLH"}
Variable    == KeyVariable \cup {"KEY_INDEX", "NETWORK"}

Value(name) ==
    CASE name \in KeyVariable -> DOMAIN TextOf
      [] name = "KEY_INDEX"   -> DOMAIN IndexOf
      [] name = "NETWORK"     -> Networks

\* A line of a settings file; parse refuses one without a name or without =.
Line   == UNION {[name: {name}, value: Value(name)] : name \in Variable}
Broken == [name |-> "", value |-> ""]

Default == ".env"
Path    == {Default, "elsewhere/.env"}

ASSUME SettingsAssumption ==
    /\ DOMAIN TextOf \subseteq STRING /\ DOMAIN IndexOf \subseteq STRING
    /\ \A text \in DOMAIN TextOf : TextOf[text].form \in Form
    /\ \A text \in DOMAIN IndexOf :
          IndexOf[text] \subseteq Nat /\ Cardinality(IndexOf[text]) <= 1
    /\ Networks \subseteq STRING /\ MaxSet \in Nat /\ MaxFlags \in Nat

VARIABLES
    environ,     \* the process environment the commands are started in
    files,       \* the settings files there are: their lines and permissions
    restricting  \* init-env has written the file and not restricted it yet

vars == <<environ, files, restricting>>

-----------------------------------------------------------------------------
(* EnvFile: what is in effect once flags, environment and file are merged. *)

LastLine(lines, name) ==
    CHOOSE i \in DOMAIN lines :
        /\ lines[i].name = name
        /\ \A j \in DOMAIN lines : lines[j].name = name => j <= i

\* parse: an assignment further down replaces one of the same name.
Parsed(lines) ==
    [name \in {line.name : line \in Range(lines)} |-> lines[LastLine(lines, name)].value]

\* EnvFile::load: a file others can read and a broken line are refused.
Load(explicit) ==
    LET path == IF explicit = {} THEN Default ELSE CHOOSE p \in explicit : TRUE
    IN  IF path \notin DOMAIN files
        THEN IF explicit = {} THEN {<< >>} ELSE {}
        ELSE {Parsed(file.lines) : file \in
                {f \in {files[path]} : f.private /\ Broken \notin Range(f.lines)}}

InEnviron(name) == name \in DOMAIN environ /\ environ[name] # ""

\* Seeded fault: the file is asked before the environment.
Get_FileFirst(values, name) ==
    IF name \in DOMAIN values THEN {values[name]}
    ELSE IF InEnviron(name) THEN {environ[name]} ELSE {}

\* EnvFile::get: an empty variable counts as unset, an empty line does not.
Get(values, name) ==
    IF InEnviron(name) THEN {environ[name]}
    ELSE IF name \in DOMAIN values THEN {values[name]} ELSE {}

SourceOf(values, name) ==
    IF InEnviron(name) THEN "environment"
    ELSE IF name \in DOMAIN values THEN Default ELSE "environment"

OrElse(first, second) == IF first # {} THEN first ELSE second

-----------------------------------------------------------------------------
(* The command line, and resolve. *)

\* A command: its scheme (by name and --set), and each flag at most once.
AtMostOne(S) == {{}} \cup {{s} : s \in S}
Flags ==
    {f \in [scheme: Scheme, mnemonic: AtMostOne(DOMAIN TextOf), key: AtMostOne(DOMAIN TextOf),
            key_index: AtMostOne(DOMAIN IndexOf), network: AtMostOne(Networks),
            env_file: AtMostOne(Path \ {Default})] :
        /\ Cardinality(f.mnemonic) + Cardinality(f.key) + Cardinality(f.key_index)
             + Cardinality(f.network) + Cardinality(f.env_file) <= MaxFlags}

\* key_vars: the SLH-DSA pair as soon as one of it is set, for its schemes.
KeyVars(scheme, values) ==
    IF /\ scheme # LmsSha256
       /\ Get(values, "MNEMONIC_SLH") # {} \/ Get(values, "KEY_SLH") # {}
    THEN [mnemonic |-> "MNEMONIC_SLH", key |-> "KEY_SLH"]
    ELSE [mnemonic |-> "MNEMONIC", key |-> "KEY"]

\* The key material and where it is said to come from; both kinds, or none,
\* are refused.
Material(f, values) ==
    LET names    == KeyVars(f.scheme, values)
        mnemonic == OrElse(f.mnemonic, Get(values, names.mnemonic))
        key      == OrElse(f.key, Get(values, names.key))
        Origin(flag, name) ==
            IF flag # {} THEN [place |-> "flag", name |-> name]
            ELSE [place |-> SourceOf(values, name), name |-> name]
    IN  IF mnemonic # {} /\ key # {} THEN {}
        ELSE {[material |-> m, origin |-> Origin(f.mnemonic, names.mnemonic)] :
                m \in UNION {FromMnemonic(TextOf[text]) : text \in mnemonic}}
             \cup
             {[material |-> m, origin |-> Origin(f.key, names.key)] :
                m \in UNION {ParseKey(TextOf[text]) : text \in key}}

KeyIndex(f, values) ==
    LET text == OrElse(f.key_index, Get(values, "KEY_INDEX"))
    IN  IF text = {} THEN {0} ELSE UNION {IndexOf[t] : t \in text}

Network(f, values) ==
    OrElse(OrElse(f.network, Get(values, "NETWORK")), {"tn10"})

\* prefix_for decides the addresses, connect the node that is asked.
PrefixFor(network) ==
    IF network \in {"tn10", "testnet", "testnet-10"} THEN {"testnet"}
    ELSE IF network = "mainnet" THEN {"mainnet"} ELSE {}
NodeFor(network) == IF network = "mainnet" THEN "mainnet" ELSE "testnet"

Resolve(f, values) ==
    {[material |-> k.material, origin |-> k.origin, key_index |-> i, network |-> n] :
        k \in Material(f, values), i \in KeyIndex(f, values), n \in Network(f, values)}

(***************************************************************************)
(* A command that opens a vault: load, resolve, prefix_for and open_vault. *)
(* Every one of them may fail, and then no vault is opened.                *)
(***************************************************************************)
Open(f) ==
    UNION {{[scheme |-> f.scheme, material |-> r.material, origin |-> r.origin,
             key_index |-> r.key_index, xi |-> xi,
             prefix |-> prefix, node |-> NodeFor(r.network)] :
                xi \in XiFrom(f.scheme, r.material, 0, r.key_index),
                prefix \in PrefixFor(r.network)} :
             r \in UNION {Resolve(f, values) : values \in Load(f.env_file)}}

-----------------------------------------------------------------------------
(* The state moves by the user's hand and by init-env. *)

Init == environ = << >> /\ files = << >> /\ restricting = FALSE

Assigned ==
    Cardinality(DOMAIN environ)
      + (IF Default \in DOMAIN files THEN Len(files[Default].lines) ELSE 0)
      + (IF "elsewhere/.env" \in DOMAIN files THEN Len(files["elsewhere/.env"].lines) ELSE 0)

\* The value of one key set, whether there was one or not.
With(f, key, value) == [k \in {key} \cup DOMAIN f |-> IF k = key THEN value ELSE f[k]]

\* The user sets a variable in the shell, to nothing perhaps.
Export(line) ==
    /\ line.name \in DOMAIN environ \/ Assigned < MaxSet
    /\ environ' = With(environ, line.name, line.value)
    /\ UNCHANGED <<files, restricting>>

\* The user adds a line to a file of theirs, creating it when it is not there.
Edit(path, line) ==
    /\ Assigned < MaxSet
    /\ \E private \in BOOLEAN :
          LET file == IF path \in DOMAIN files THEN files[path]
                      ELSE [lines |-> << >>, private |-> private]
          IN  files' = With(files, path, [file EXCEPT !.lines = Append(@, line)])
    /\ UNCHANGED <<environ, restricting>>

Chmod(path) ==
    /\ path \in DOMAIN files
    /\ files' = [files EXCEPT ![path].private = ~@]
    /\ UNCHANGED <<environ, restricting>>

\* Seeded fault: the permissions are set before the file is there.
InitEnvWrite_RestrictsFirst ==
    /\ ~restricting /\ Default \notin DOMAIN files
    /\ restricting' = TRUE
    /\ UNCHANGED <<environ, files>>

(***************************************************************************)
(* init-env on the default path: the file is written with the permissions  *)
(* files are created with, and restricted in a second step; the command    *)
(* may be killed before that.  With --env-file the command never gets      *)
(* here: load refuses a path that does not exist, init-env one that does.  *)
(***************************************************************************)
InitEnvWrite ==
    /\ ~restricting /\ Default \notin DOMAIN files
    /\ \E private \in BOOLEAN :
          files' = With(files, Default, [lines |-> << >>, private |-> private])
    /\ restricting' = TRUE
    /\ UNCHANGED environ

InitEnvRestrict ==
    /\ restricting
    /\ files' = [files EXCEPT ![Default].private = TRUE]
    /\ restricting' = FALSE
    /\ UNCHANGED environ

InitEnvKilled ==
    /\ restricting /\ restricting' = FALSE
    /\ UNCHANGED <<environ, files>>

Next ==
    \/ \E line \in Line : Export(line) \/ \E path \in Path : Edit(path, line)
    \/ \E path \in Path : Edit(path, Broken) \/ Chmod(path)
    \/ InitEnvWrite \/ InitEnvRestrict \/ InitEnvKilled

Spec == Init /\ [][Next]_vars
-----------------------------------------------------------------------------
\* The state is well-typed, and init-env restricts only a file it has written.
TypeOK ==
    /\ DOMAIN environ \subseteq Variable
    /\ \A name \in DOMAIN environ : environ[name] \in Value(name)
    /\ DOMAIN files \subseteq Path
    /\ \A path \in DOMAIN files :
          /\ files[path].private \in BOOLEAN
          /\ Range(files[path].lines) \subseteq Line \cup {Broken}
    /\ restricting \in BOOLEAN /\ (restricting => Default \in DOMAIN files)

(***************************************************************************)
(* What env.rs promises of the three places a setting may come from, put   *)
(* down place by place: a flag before the environment before the file.     *)
(***************************************************************************)
Places == <<"flag", "environment", Default>>

GivenAt(place, f, values, name) ==
    CASE place = "environment" -> {environ[n] : n \in {name} \cap DOMAIN environ} \ {""}
      [] place = Default       -> {values[n] : n \in {name} \cap DOMAIN values}
      [] place = "flag"        ->
             CASE name \in {"MNEMONIC", "MNEMONIC_SLH"} -> f.mnemonic
               [] name \in {"KEY", "KEY_SLH"}           -> f.key
               [] name = "KEY_INDEX"                    -> f.key_index
               [] name = "NETWORK"                      -> f.network

\* The text of the highest place that gives one.
Foremost(f, values, name) ==
    LET at == {i \in DOMAIN Places : GivenAt(Places[i], f, values, name) # {}}
    IN  IF at = {} THEN {}
        ELSE GivenAt(Places[CHOOSE i \in at : \A j \in at : i <= j], f, values, name)

\* The vault v has the key of the pair of names, and its origin is told right.
KeyIsForemost(v, f, values, names) ==
    \E kind \in {"mnemonic", "key"} : LET name == names[kind] IN
        /\ v.origin.name = name
        /\ \E text \in Foremost(f, values, name) :
              /\ text \in GivenAt(v.origin.place, f, values, name)
              /\ v.material \in IF kind = "mnemonic" THEN FromMnemonic(TextOf[text])
                                                     ELSE ParseKey(TextOf[text])
        /\ \A other \in {names.mnemonic, names.key} \ {name} :
              Foremost(f, values, other) = {}

(***************************************************************************)
(* Whatever flags, environment and file say, a command that opens a vault  *)
(* opens that of the foremost key given to its scheme, no key of the other *)
(* kind being given anywhere; it names the place the key was read from,    *)
(* takes the foremost key index and network, and asks a node of the        *)
(* network its addresses are of.  (resolve, key_vars, source_of, connect)  *)
(***************************************************************************)
SettingsAreHonoured ==
    \A f \in Flags : \A values \in Load(f.env_file), v \in Open(f) :
        LET slhGiven == \E name \in {"MNEMONIC_SLH", "KEY_SLH"}, place \in {"environment", Default} :
                            GivenAt(place, f, values, name) # {}
            Parses(texts, result) == \A text \in texts : result \in IndexOf[text]
        IN  /\ KeyIsForemost(v, f, values,
                   IF slhGiven /\ f.scheme # LmsSha256
                   THEN [mnemonic |-> "MNEMONIC_SLH", key |-> "KEY_SLH"]
                   ELSE [mnemonic |-> "MNEMONIC", key |-> "KEY"])
            /\ LET texts == Foremost(f, values, "KEY_INDEX")
               IN  IF texts = {} THEN v.key_index = 0 ELSE Parses(texts, v.key_index)
            /\ v.node = v.prefix
            /\ (v.node = "mainnet") = ("mainnet" \in Foremost(f, values, "NETWORK"))

\* What makes a vault the vault it is.
Identity(v) ==
    [scheme |-> v.scheme, key_index |-> v.key_index,
     bare |-> v.material.kind = "Raw", secret |-> v.material.secret]

(***************************************************************************)
(* Of the vaults the user can open as things are set, two share a secret   *)
(* exactly when they are one: same scheme, same key index, same seed or    *)
(* same bare key.  The network is no part of it.  (xi_from, seeds_from_xi) *)
(***************************************************************************)
SecretsTellVaultsApart ==
    LET vaults == {[id |-> Identity(v), secrets |-> Secrets(v.scheme, v.xi)] :
                      v \in UNION {Open(f) : f \in Flags}}
    IN  \A a, b \in vaults : a.id = b.id <=> a.secrets \cap b.secrets # {}
=============================================================================
