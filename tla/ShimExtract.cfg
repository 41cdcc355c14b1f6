\* Three launches of the shims of two versions of a bundle, in one directory.
CONSTANTS
    s1 = s1
    s2 = s2
    s3 = s3
    v1 = v1
    v2 = v2
    entry = entry
    old = old
    new = new
    Shims = {s1, s2, s3}
    Bundles = {v1, v2}
    BundleOf <- TwoVersions
    Files = {entry, old, new}
    FilesOf <- Archives
    EntryFile = entry
    NoBundle = NoBundle
    NoShim = NoShim
    NoFile = NoFile
SPECIFICATION Spec
INVARIANTS TypeOK MarkerTrue RunsItsVersion
CHECK_DEADLOCK FALSE
