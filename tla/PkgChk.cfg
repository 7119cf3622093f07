SPECIFICATION Spec
CONSTANTS
    Packages <- MCPackages
    Contents <- MCContents
    Files <- MCFiles
    Hashes <- MCHashes
    NoFile = NoFile
INVARIANTS TypeOK NodesCounted RowsCover WarningIsRight BuiltIsPerfect ChunkCheckRight MinHashesRight HashesOfRight PerfectTreesAnswer
