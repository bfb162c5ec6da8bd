\* One code of every class that is told apart, at every point of the exchange.
SPECIFICATION Spec
CONSTANTS
    Codes = {200, 202, 204, 300, 400, 401, 403, 404, 409, 500}
    NoAnswer = 0
INVARIANTS TypeOK DoneMeansDone RefusalIsTheServices
CHECK_DEADLOCK FALSE
