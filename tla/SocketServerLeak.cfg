CONSTANTS
    c1 = c1
    c2 = c2
    c3 = c3
    s1 = s1
    s2 = s2
    NoConn = NoConn
    NoEntry = NoEntry
    Conn = {c1, c3}
    FD = {1, 2}
    Session = {s1, s2}
    SessionOf <- MCSessionOf
    Kinds = {"Upload", "Download", "Rename File"}
SPECIFICATION Spec
PROPERTIES
    ServedSocketIsClosed
CHECK_DEADLOCK FALSE
