\* The host, an image, copied directories; an ELF file and a resolv.conf.
CONSTANTS
    host = host
    img = img
    dir = dir
    a = a
    b = b
    c = c
    same = same
    empty = empty
    d1 = d1
    d2 = d2
    d3 = d3
    d4 = d4
    d5 = d5
    d6 = d6
    Host = host
    Images <- OneImage
    Copied = dir
    PathOrder <- Paths
    DigestOf <- Contained
    Elves <- OneElf
    Assets <- OneAsset
    ResolvConf = c
    Empty = empty
    Nothing = Nothing
    NoName = NoName
    MaxInputs = 4
SPECIFICATION Spec
INVARIANTS TypeOK PathsServed FirstOfferKept LoopsNeedBothForms BlockedByCopiesOnly
CHECK_DEADLOCK FALSE
