CONSTANTS
    Conn = {c1, c2}
    Server = {s}
    Client = {}
    Replier = {r}
    Caster = {b}
    MaxConn = 1
    Polite = {c1}
    Nobody = Nobody
SPECIFICATION Spec
INVARIANT SessionsSound
PROPERTY NobodyHangs
