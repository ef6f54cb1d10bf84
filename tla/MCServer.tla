------------------------------ MODULE MCServer ------------------------------
(* The server's gate, the staff desk, sellers' standing, the evidence of   *)
(* disputes and the warrant canary, which share no state here: a behaviour *)
(* is one of one of them, on a small instance, and the others are at rest. *)
(* The slots requests are handled in are alike.                            *)
EXTENDS Gate, Desk, Market, Evidence, Canary, TLC

CONSTANTS P1, P2, P3, F1, F2
VARIABLE part

Symmetry == Permutations(Requests)

-----------------------------------------------------------------------------
(* Bounds *)

Traffic(routes, switches, many, until) ==
    [routes |-> routes, switches |-> switches, calls |-> many, until |-> until]

\* Three uploads at once fill the room or meet a silent disk, two a stale answer.
SmallTraffics ==
    {Traffic({"read", "logout"}, {}, 3, 4), Traffic({"enter"}, {}, 2, 4), Traffic({"upload"}, {}, 3, 2),
     Traffic({"upload"}, {"disk"}, 3, 1), Traffic({"upload"}, {"disk"}, 2, 2),
     Traffic({"logout", "read"}, {"freeze"}, 2, 4), Traffic({"mint", "send"}, {"revoke"}, 2, 3)}

Shift(first, second, third, trading, filed, ops, most) ==
    [roles |-> (P1 :> first @@ P2 :> second @@ P3 :> third), sellers |-> trading, filed |-> filed,
     ops |-> ops, most |-> most]
SmallShifts ==
    {Shift("admin", "admin", "user", {}, <<>>, {"role"}, 3),
     Shift("admin", "moderator", "user", {}, <<>>, {"status", "role"}, 3),
     Shift("admin", "user", "user", {}, <<>>, {"apply", "decide"}, 3),
     Shift("admin", "user", "user", {P2}, <<>>, {"list", "status", "fail"}, 3),
     Shift("admin", "moderator", "user", {}, F1 :> Filed("application", P3, "shop"),
           {"decide", "list", "status"}, 3),
     Shift("admin", "moderator", "user", {},
           F1 :> Filed("report", P2, "shop") @@ F2 :> Filed("review", P3, "shop"),
           {"resolve", "hide", "fail"}, 3)}

\* Orders, not volume, hold a level back.
SmallLevels == [n \in 1..3 |-> [settled |-> n, orders |-> n]]
Season(on, sold, lasts, most) == [database |-> on, sales |-> sold, days |-> lasts, calls |-> most]
SmallSeasons ==
    {Season("postgres", 2, 3, 3), Season("postgres", 1, 3, 4),
     Season("sqlite", 2, 3, 2), Season("sqlite", 1, 3, 3), Season("sqlite", 2, 1, 3)}

-----------------------------------------------------------------------------
(* At rest *)

CanaryAtRest ==
    /\ day = 1 /\ statements = {} /\ enrolled = [a \in Admins |-> Pinned]
    /\ publishing = [a \in Admins |-> NotPublishing]
DeskAtRest ==
    /\ shift = CHOOSE s \in Shifts : TRUE
    /\ roles = shift.roles /\ users = [u \in People |-> "active"]
    /\ sellers = [u \in People |-> NoSeller] /\ items = [i \in Papers |-> NoItem]
    /\ listed = {} /\ ceilings = {} /\ told = {} /\ records = {} /\ called = 0
    /\ calls = [c \in Calls |-> NotCalled] /\ torn = {} /\ crossed = {} /\ chiefs = FALSE

ServerInit ==
    /\ part \in {"gate", "desk", "standing", "evidence", "canary"}
    /\ GateInit /\ MarketInit /\ EvidenceInit
    /\ part # "gate" => traffic = CHOOSE t \in Traffics : TRUE
    /\ part # "standing" => season = CHOOSE s \in Seasons : TRUE
    /\ IF part = "desk" THEN DeskInit ELSE DeskAtRest
    /\ IF part = "canary" THEN CanaryInit ELSE CanaryAtRest

ServerNext ==
    \/ part = "gate" /\ GateNext /\ UNCHANGED <<part, deskVars, marketVars, evidenceVars, canaryVars>>
    \/ part = "desk" /\ DeskNext /\ UNCHANGED <<part, gateVars, marketVars, evidenceVars, canaryVars>>
    \/ /\ part = "standing" /\ MarketNext
       /\ UNCHANGED <<part, gateVars, deskVars, evidenceVars, canaryVars>>
    \/ /\ part = "evidence" /\ EvidenceNext
       /\ UNCHANGED <<part, gateVars, deskVars, marketVars, canaryVars>>
    \/ part = "canary" /\ CanaryNext /\ UNCHANGED <<part, gateVars, deskVars, marketVars, evidenceVars>>

ServerSpec ==
    ServerInit /\ [][ServerNext]_<<part, gateVars, deskVars, marketVars, evidenceVars, canaryVars>>

=============================================================================
