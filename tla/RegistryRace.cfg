CONSTANTS
    Req = {r1, r2}
    Branch = {b1, b2}
    Timed = {r1}
    Panics = {r2}
    Nobody = Nobody
SPECIFICATION Spec
INVARIANTS ExchangeSound SlotsKept
PROPERTIES ImplementsOneShot TimedRequestReturns
