SPECIFICATION Spec
CONSTANTS
    Proc = {p1, p2}
    a = a
    c = c
    b = b
    url1 = url1
    url2 = url2
    Name = {a, b, c}
    Url = {url1, url2}
    None = None
    InitialRemotes <- Tables
    MaxRevisions = 2
    MaxCommands = 3
    MaxFailures = 1
    MaxMishaps = 0
SYMMETRY Symmetry

PROPERTIES DownloadBringsSources
