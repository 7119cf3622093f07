SPECIFICATION Spec
CONSTANTS
    Packages <- EightPackage
    Contents <- MCContents
    Files <- MCFiles
    Hashes <- MCHashes
    NoFile = NoFile
INVARIANT MinHashesMinimal
