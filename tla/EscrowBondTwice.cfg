CONSTANTS
    None = None
    Platform = platform
    Users = {u1, u2}
    Sellers = {u1}
    Orders = {o1, o2}
    Calls = {c1, c2}
    Prices = {3}
    Stakes = {3}
    FeeBps = 5000
    Funds = 6
    MaxReports = 1
SYMMETRY Symmetry
SPECIFICATION Spec
INVARIANT
    CompensatedOnce
