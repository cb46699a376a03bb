SPECIFICATION MCSpec
CONSTANTS
    e1 = e1
    e2 = e2
    b1 = b1
    b2 = b2
    Mara = Mara
    Imprint = Imprint
    Kindle = Kindle
    r1 = r1
    r2 = r2
    d1 = d1
    d2 = d2
    d3 = d3
    NoName = NoName
    NoFile = NoFile
    Editions = {e1, e2}
    BookOf <- MCBookOf
    Formats = {"paperback", "none"}
    PrintFormats = {"paperback"}
    NoFormat = "none"
    Names = {Mara, Imprint, Kindle}
    Marketplaces = {Kindle}
    Authors <- MCAuthors
    Requests = {r1, r2}
    MaxEdits = 1
    Uploads = {d1, d2, d3}
    MaxDocuments = 4
SYMMETRY Symmetry
INVARIANT TypeOK
INVARIANT DownloadIsOwnAndValid
INVARIANT PassedPackagesAreFit
INVARIANT LatestIsHighestVersion
CHECK_DEADLOCK FALSE
