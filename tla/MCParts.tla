------------------------------ MODULE MCParts ------------------------------
(* The components that share no state with another one, on small           *)
(* instances: a behaviour is one of one component, the others are at rest. *)
EXTENDS Ratchet, Backups, Media, Deposits, Catalogue, Handover, TLC

VARIABLE part

Symmetry == Permutations(Owners) \cup Permutations(Asks)

-----------------------------------------------------------------------------
(* Bounds *)

Plan(driver, kinds, most, faults, until) ==
    [driver |-> driver, kinds |-> kinds, most |-> most, faults |-> faults, until |-> until]
SmallPlans ==
    {Plan("sqlite", {"create", "prune"}, 4, {}, 3),
     Plan("sqlite", {"create", "prune"}, 3, {"kill"}, 3),
     Plan("sqlite", {"create", "drill", "verify", "restore"}, 3, {"kill"}, 1),
     Plan("sqlite", {"create", "drill", "verify", "restore"}, 3, {"damage", "full", "boot"}, 1),
     Plan("postgres", {"create", "drill", "restore", "verify"}, 3, {"kill", "refuse", "boot"}, 1)}

Scheme(paid, given, begun, mined, may) ==
    [transfers |-> paid, subaddresses |-> given, passes |-> begun, blocks |-> mined, may |-> may]
SmallSchemes ==
    {Scheme(1, 3, 1, 1, {"fail"}), Scheme(2, 1, 2, 1, {}), Scheme(1, 1, 2, 2, {"crash", "fork"}),
     Scheme(2, 1, 1, 2, {"fork"}), Scheme(2, 1, 1, 1, {"payout", "compare"}),
     Scheme(1, 1, 2, 2, {"payout", "compare", "fork"})}

SmallTexts == {<<"b", "a">>, <<"b", "c", "a">>}
Visit(allowed, written, loaded, begun) ==
    [may |-> allowed, writes |-> written, loads |-> loaded, boots |-> begun]
AnyWrite == {"create", "edit", "change"}
SmallVisits ==
    {Visit(AnyWrite, 1, 3, 0), Visit({}, 0, 2, 2), Visit({"edit"}, 2, 1, 1), Visit({"edit"}, 1, 2, 1)}

Deal(ways, of, most, may) == [ways |-> ways, files |-> of, most |-> most, may |-> may]
SmallDeals ==
    {Deal({"file"}, {"photo"}, 2, {"loss", "close", "expiry"}),
     Deal({"text", "manual"}, {"note"}, 2, {"loss", "close", "dispute"}),
     Deal({"file", "attachment"}, {"photo"}, 3, {"loss"}),
     Deal({"attachment"}, {"photo"}, 2, {"expiry", "close"}),
     Deal({"file"}, {"photo", "clip"}, 2, {"evidence", "dispute"})}

-----------------------------------------------------------------------------
(* At rest *)

BackupsAtRest ==
    /\ plan = CHOOSE p \in Plans : TRUE
    /\ clock = 1 /\ sound = TRUE /\ folder = <<>> /\ plaintext = {} /\ excused = {}
    /\ target = "empty" /\ commands = [c \in Commands |-> Stopped] /\ started = 0 /\ finished = 0
MediaAtRest ==
    /\ file = A("text", <<>>, <<>>, <<>>, FALSE, FALSE)
    /\ at = 0 /\ keep = <<>> /\ blank = {} /\ wiped = {} /\ verdict = "walking"
DepositsAtRest ==
    /\ scheme = CHOOSE s \in Schemes : TRUE
    /\ subaddresses = 0 /\ addresses = [u \in Owners |-> 0] /\ shown = [u \in Owners |-> {}]
    /\ transfers = {} /\ blocks = 0 /\ deposits = {}
    /\ books = [u \in Owners |-> [available |-> 0, held |-> 0]]
    /\ payouts = [u \in Owners |-> NoPayout] /\ relayed = 0 /\ fees = 0
    /\ asks = [a \in Asks |-> Waiting] /\ passes = [p \in Passes |-> Waiting] /\ run = 0
    /\ compared = [owed |-> 0, wallet |-> 0, due |-> 0, fees |-> 0]
CatalogueAtRest ==
    /\ visit = CHOOSE v \in Visits : TRUE
    /\ listing = [i \in Ids |-> Unlisted] /\ terms = {}
    /\ boots = [servers |-> [s \in Servers |-> NotStarting], started |-> 0]
    /\ box = Everything /\ results = <<>> /\ cursor = NoCursor /\ loads = {}
    /\ writes = 0 /\ asked = 0 /\ touched = {} /\ cut = {} /\ mixed = FALSE

PartsInit ==
    /\ part \in {"ratchet", "backups", "media", "deposits", "catalogue", "handover"}
    /\ Init
    /\ IF part = "backups" THEN BackupInit ELSE BackupsAtRest
    /\ IF part = "media" THEN MediaInit ELSE MediaAtRest
    /\ IF part = "deposits" THEN DepositInit ELSE DepositsAtRest
    /\ IF part = "catalogue" THEN CatalogueInit ELSE CatalogueAtRest
    /\ HandoverInit
    /\ part # "handover" => deal = CHOOSE d \in Deals : TRUE

PartsNext ==
    \/ /\ part = "ratchet" /\ Next
       /\ UNCHANGED <<part, backupVars, mediaVars, depositVars, catalogueVars, handoverVars>>
    \/ /\ part = "backups" /\ BackupNext
       /\ UNCHANGED <<part, vars, mediaVars, depositVars, catalogueVars, handoverVars>>
    \/ /\ part = "media" /\ MediaNext
       /\ UNCHANGED <<part, vars, backupVars, depositVars, catalogueVars, handoverVars>>
    \/ /\ part = "deposits" /\ DepositNext
       /\ UNCHANGED <<part, vars, backupVars, mediaVars, catalogueVars, handoverVars>>
    \/ /\ part = "catalogue" /\ CatalogueNext
       /\ UNCHANGED <<part, vars, backupVars, mediaVars, depositVars, handoverVars>>
    \/ /\ part = "handover" /\ HandoverNext
       /\ UNCHANGED <<part, vars, backupVars, mediaVars, depositVars, catalogueVars>>

PartsSpec ==
    PartsInit /\ [][PartsNext]_<<part, vars, backupVars, mediaVars, depositVars, catalogueVars, handoverVars>>

=============================================================================
