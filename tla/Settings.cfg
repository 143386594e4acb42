\* Two assignments in the shell or a file, two flags.
SPECIFICATION Spec
CONSTANTS
    ChildLimit = 200000
    TextOf <- MCTextOf
    IndexOf <- MCIndexOf
    Networks <- MCNetworks
    MaxSet = 2
    MaxFlags = 2
INVARIANTS
    TypeOK
    SettingsAreHonoured
    SecretsTellVaultsApart
