SPECIFICATION Spec
CONSTANTS
    h1 = h1  h2 = h2  h3 = h3
    Handlers = {h1, h2, h3}
    People = {"ann", "ben", "ann2"}
    Phone <- PhoneOf
    Email <- EmailOf
    AccountIds = {"id1", "id2"}
    Requests <- AllRequests
    LastIds = {0, 1}
    Million = 3
    Life = 1
    MaxTime = 2
CHECK_DEADLOCK FALSE
SYMMETRY HandlerSymmetry
INVARIANTS
    IInv
    AccountOfEachUser
    LogoutIsFinal
    ProfileIsOwn
