SPECIFICATION Spec
CONSTANTS
    h1 = h1  h2 = h2  h3 = h3  h4 = h4
    qr = qr  bvn = bvn  payment = payment  otp1 = otp1  otp2 = otp2
    Handlers = {h1, h2, h3}
    Keys = {qr, bvn}
    QRCodes = {qr}
    Secrets = {payment, otp1, otp2}
    Requests <- AllRequests
    TTL <- TwoTTLs
    MaxTime = 3
    Overlap = FALSE
CHECK_DEADLOCK FALSE
SYMMETRY HandlerSymmetry
INVARIANTS
    IInv
PROPERTIES
    ImplementsOneTimeSecret
    RefusedIsInvalid
