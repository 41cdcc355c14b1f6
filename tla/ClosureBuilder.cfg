\* Layouts of libraries, calls of scripts and stubs of linkers.
CONSTANTS
    Dirs <- MCDirs
    Bin = "bin"
    Defaults <- MCDefaults
    Libs <- MCLibs
    Filtered = {"gl"}
    Programs = {"app", "tool", "sh"}
    Scripts = {"run", "job"}
    Shell = "sh"
    Ld <- MCLd
    HostLd <- MCHostLd
    NoPath = NoPath
    Families <- MCFamilies
SPECIFICATION Spec
INVARIANTS TypeOK LibrariesFound LinkerServes ProgramsHaveLibraries ScannedComplete NestingBounded
CHECK_DEADLOCK FALSE
