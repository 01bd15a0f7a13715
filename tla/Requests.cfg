SPECIFICATION Spec
CONSTANTS
    Request <- TwoRequests
    Asked <- AnyAndOther
    Pool = {c1, c2}
    None = None
INVARIANTS OneReply ServedRightly RowIsOwn
PROPERTIES EveryRequestLogged
CHECK_DEADLOCK FALSE
