SPECIFICATION Spec
CONSTANTS
    Packages <- TwoPackage
    Contents <- MCContents
    Files <- MCFiles
    Hashes <- MCHashes
    NoFile = NoFile
INVARIANT AllChunksMeansComplete
