SPECIFICATION Spec
CONSTANTS
    Objects = {o1, o2, o3}
    Addresses = {a1, a2}
    NULL = NULL
    File = File
    MayInit = {"malloc", "anonymous", "new", "exists"}
    Fds = {0, 3}
PROPERTIES
    ReleaseGivesBackWhatInitTook
