SPECIFICATION Spec
CONSTANTS
    ConfigFiles <- MCConfigFiles
    Unreadable = Unreadable
    Null = Null
    Unset = Unset
    Freed = Freed
    Texts <- MCTexts
    BpkgFiles <- MCBpkgFiles
    DataFiles <- MCDataFiles
    Contents = {"a", "x"}
    Made <- MCMade
    NoFile = NoFile
    MaxPackages = 2
    Typed <- MCTyped
    NoArg = NoArg
    Fds = 9
INVARIANTS WidePort
