----------------------------- MODULE MCAccounts -----------------------------
(* Accounts on small instances, from two sides that share no state: their    *)
(* credentials and vaults; and how they come and go, with what hangs on      *)
(* them.  A behaviour is one of one side, the other is at rest.              *)
EXTENDS Vault, Members, TLC

CONSTANTS Browsers
VARIABLE side

\* The slots of requests are alike, and so are browsers, and names, which share
\* the slots' model values.
Symmetry == Permutations(Requests) \cup Permutations(Browsers)

-----------------------------------------------------------------------------
(* Bounds: a mix names the routes that meet in one behaviour, and one without *)
(* browsers leaves the vault alone; a story says who is there at the start,   *)
(* what may happen and how often.                                             *)

Mix(database, routes, most) ==
    [database |-> database, routes |-> routes, calls |-> most, pgp |-> {0, 1},
     browsers |-> {}, features |-> {}, saved |-> TRUE]

\* What browsers with a vault meet, and what may happen to them.
Keep(routes, most, features) ==
    [Mix("sqlite", routes, most) EXCEPT !.pgp = {0}, !.browsers = Browsers, !.features = features]

Factor == {"challenge", "key", "remove"}

SmallMixes ==
    {Mix("sqlite", {"login", "complete", "password", "phrase", "end"}, 4),
     Mix("sqlite", {"link", "claim", "password", "stop"}, 5),
     Mix("sqlite", {"recovery", "recover", "login", "complete"}, 5),
     Mix("sqlite", Factor, 6),
     Mix("postgres", {"login", "complete", "recovery", "recover"}, 4),
     Mix("postgres", {"link", "claim", "challenge", "key"}, 4),
     Keep({"login", "save", "password"}, 3, {}),
     Keep({"save", "password", "phrase"}, 3, {}),
     Keep({"login", "save", "phrase"}, 4, {}),
     Keep({"login", "save", "password"}, 3, {"reload", "lose", "refuse"}),
     Keep({"login", "password", "save", "stop"}, 3, {"lose"}),
     Keep({"recovery", "recover", "login", "save"}, 5, {"lose"}),
     Keep({"link", "claim", "save"}, 4, {}),
     [Keep({"login", "save"}, 3, {}) EXCEPT !.saved = FALSE]}

Story(there0, sellers, coins, births, most, may) ==
    [there |-> there0, sellers |-> sellers, coins |-> coins, births |-> births, orders |-> most,
     may |-> may]
SmallStories ==
    {Story(0, 1, 0, 3, 0, {"register", "delete", "fail"}),
     Story(2, 1, 1, 3, 2, {"register", "delete", "money"}),
     Story(2, 2, 1, 2, 2, {"delete", "dispute", "review"}),
     Story(3, 1, 2, 3, 3, {"review"}),
     Story(3, 1, 1, 3, 2, {"delete", "dispute", "review"})}

-----------------------------------------------------------------------------

AccountsInit ==
    /\ side \in {"credentials", "members"}
    /\ VaultInit /\ MembersInit
    /\ side # "credentials" =>
           /\ mix = CHOOSE m \in Mixes : m.routes = Factor
           /\ pgp = 0
    /\ side # "members" => story = CHOOSE s \in Stories : s.there = 0

AccountsNext ==
    \/ side = "credentials" /\ VaultNext /\ UNCHANGED <<side, memberVars>>
    \/ side = "members" /\ MembersNext /\ UNCHANGED <<side, allVars>>

AccountsSpec == AccountsInit /\ [][AccountsNext]_<<side, allVars, memberVars>>

=============================================================================
