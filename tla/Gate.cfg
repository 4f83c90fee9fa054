CONSTANT Request = {r1, r2, r3}
SPECIFICATION Spec
INVARIANT TypeOK
INVARIANT HeldWaits
INVARIANT OneFate
INVARIANT InOrder
PROPERTY NothingSentTooEarly
PROPERTY KeepsPromise
