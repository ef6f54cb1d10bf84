----------------------------- MODULE Catalogue -----------------------------
(***************************************************************************)
(* The catalogue as a reader pages through it: the index of words, the     *)
(* cursor, and the screen that asks for one page after the other while     *)
(* sellers and moderators change what it shows.                            *)
(*                                                                         *)
(* Code: src/server/lib/search.ts, lib/listings.ts; the listing routes of  *)
(* routes/market.ts; src/client/views/market.ts.                           *)
(*                                                                         *)
(* A listing is its words, in the order title, category, description, and  *)
(* the key it sorts by; ids are numbers.  A listing and its index change   *)
(* in one transaction, but for those that predate the index: each server   *)
(* that starts writes theirs word by word, and may be stopped meanwhile.   *)
(***************************************************************************)
EXTENDS Naturals, FiniteSets, Sequences, SequencesExt

CONSTANTS
    MaxListings,     \* bound: listings, whose ids are 1..MaxListings
    Texts,           \* what a listing may say: sequences of different words
    Words,           \* what a reader may search for
    Ranks,           \* bound: values of rank_key
    Servers,         \* application servers that may start beside each other
    MaxTerms,        \* MAX_LISTING_TERMS
    PageLimit,       \* limit
    Visits,          \* bound: changes and their kinds, requests, and servers that start
    Everything       \* no search term

ASSUME CatalogueAssumption ==
    /\ PageLimit \in Nat \ {0} /\ Ranks \subseteq Nat
    /\ {MaxListings, MaxTerms} \subseteq Nat
    /\ \A v \in Visits : /\ {v.writes, v.loads, v.boots} \subseteq Nat
                          /\ v.may \subseteq {"create", "edit", "change"}

VARIABLES
    visit,       \* the bound this behaviour keeps to
    listing,     \* id -> status, words, rank_key
    terms,       \* listing_terms
    boots,       \* what each starting server is at, and how many have started
    box,         \* what is in the reader's search box
    results,     \* the listings on the screen
    cursor,      \* what "Show more" asks after: 0 is none
    loads,       \* requests under way
    writes, asked,    \* changes, and requests, so far
    touched,     \* not stored: listings changed since the walk began
    cut,         \* not stored: listings whose index a starting server has left half
                 \* written, or written from words that had been edited since
    mixed        \* not stored: the walk overlapped a search, or the box changed under it

catalogueVars == <<visit, listing, terms, boots, box, results, cursor, loads, writes, asked,
                   touched, cut, mixed>>

Ids == 1..MaxListings
Unlisted == [status |-> "none", words |-> <<>>, rank |-> 0]
NotStarting == [step |-> "idle"]
NoCursor == [rank |-> 0, id |-> 0]

Tokens(words) == SubSeq(words, 1, IF Len(words) > MaxTerms THEN MaxTerms ELSE Len(words))

\* The first listing may predate the index, the last is not there yet.
CatalogueInit ==
    /\ visit \in Visits
    /\ \E words \in [Ids -> Texts], rank \in [Ids -> Ranks], old \in {FALSE, visit.boots > 0} :
           /\ listing = [i \in Ids |-> IF i = MaxListings THEN Unlisted
                                      ELSE [status |-> "active", words |-> words[i], rank |-> rank[i]]]
           /\ words[MaxListings] = words[1] /\ rank[MaxListings] = rank[1]
           /\ terms = UNION {{<<word, i>> : word \in ToSet(Tokens(words[i]))} :
                                i \in (IF old THEN 2 ELSE 1)..(MaxListings - 1)}
    /\ boots = [servers |-> [s \in Servers |-> NotStarting], started |-> 0]
    /\ box = Everything /\ results = <<>> /\ cursor = NoCursor /\ loads = {}
    /\ writes = 0 /\ asked = 0 /\ touched = {} /\ cut = {} /\ mixed = FALSE

-----------------------------------------------------------------------------
(* Writing *)

\* indexListing, in the transaction that changed the listing.
IndexListing(i, words) ==
    {t \in terms : t[2] # i} \cup {<<word, i>> : word \in ToSet(Tokens(words))}

Writes(i, kind) ==
    /\ kind \in visit.may
    /\ writes < visit.writes /\ writes' = writes + 1
    /\ touched' = touched \cup {i}
    /\ UNCHANGED <<visit, boots, box, results, cursor, loads, asked, mixed>>

\* A starting server is about to write a term of this listing.
HalfIndexed(s, i) ==
    LET boot == boots.servers[s]
    IN  boot.step = "terms" /\ boot.id = i /\ boot.words # <<>>

CreateListing(i, words, rank) ==
    /\ Writes(i, "create")
    /\ listing[i] = Unlisted
    /\ listing' = [listing EXCEPT ![i] = [status |-> "active", words |-> words, rank |-> rank]]
    /\ terms' = IndexListing(i, words)
    /\ UNCHANGED cut

EditListingText(i, words) ==
    /\ Writes(i, "edit")
    /\ listing[i].status \in {"active", "paused"} /\ listing[i].words # words
    /\ listing' = [listing EXCEPT ![i].words = words]
    /\ terms' = IndexListing(i, words)
    /\ cut' = IF \E s \in Servers : HalfIndexed(s, i) THEN cut \cup {i} ELSE cut \ {i}

\* Paused, resumed, removed, restored, or the seller's level changed.
ChangeListing(i, status, rank) ==
    /\ Writes(i, "change")
    /\ listing[i] # Unlisted
    /\ listing' = [listing EXCEPT ![i].status = status, ![i].rank = rank]
    /\ UNCHANGED <<terms, cut>>

-----------------------------------------------------------------------------
(* A server starts: backfillSearchIndex, before it serves *)

Boots(s, to) == boots' = [boots EXCEPT !.servers[s] = to]

BeginBackfill(s) ==
    /\ boots.servers[s] = NotStarting /\ boots.started < visit.boots
    /\ LET unindexed == {i \in Ids : listing[i] # Unlisted /\ \A t \in terms : t[2] # i}
       IN  boots' = [servers |-> [boots.servers EXCEPT ![s] =
                         [step |-> "rows", left |-> {<<i, listing[i].words>> : i \in unindexed},
                          id |-> 0, words |-> <<>>]],
                     started |-> boots.started + 1]
    /\ UNCHANGED <<visit, listing, terms, box, results, cursor, loads, writes, asked, touched, cut, mixed>>

\* The next row's terms go, whoever wrote them, or there is none and the server
\* serves.  What the row said was read when the server began.
BackfillRow(s) ==
    LET boot == boots.servers[s]
    IN  /\ boot.step = "rows"
        /\ IF boot.left = {} THEN Boots(s, NotStarting) /\ UNCHANGED <<terms, touched, cut>>
           ELSE LET row == CHOOSE r \in boot.left : TRUE
                IN  /\ Boots(s, [step |-> "terms", left |-> boot.left \ {row}, id |-> row[1],
                                 words |-> Tokens(row[2])])
                    /\ terms' = {t \in terms : t[2] # row[1]}
                    /\ touched' = touched \cup {row[1]}
                    /\ cut' = IF row[2] # listing[row[1]].words THEN cut \cup {row[1]} ELSE cut
        /\ UNCHANGED <<visit, listing, box, results, cursor, loads, writes, asked, mixed>>

\* A term another server has written is a duplicate key, and this one dies.
BackfillTerm(s) ==
    LET boot == boots.servers[s]
    IN  /\ boot.step = "terms"
        /\ IF boot.words = <<>> THEN Boots(s, [boot EXCEPT !.step = "rows"]) /\ UNCHANGED <<terms, touched>>
           ELSE /\ touched' = touched \cup {boot.id}
                /\ IF <<Head(boot.words), boot.id>> \in terms THEN Boots(s, NotStarting) /\ UNCHANGED terms
                   ELSE /\ terms' = terms \cup {<<Head(boot.words), boot.id>>}
                        /\ Boots(s, [boot EXCEPT !.words = Tail(@)])
        /\ cut' = IF boot.words # <<>> /\ <<Head(boot.words), boot.id>> \in terms
                  THEN cut \cup {boot.id} ELSE cut
        /\ UNCHANGED <<visit, listing, box, results, cursor, loads, writes, asked, mixed>>

StopServer(s) ==
    LET boot == boots.servers[s]
    IN  /\ boot # NotStarting
        /\ cut' = cut \cup {i \in Ids : HalfIndexed(s, i)}
        /\ Boots(s, NotStarting)
        /\ UNCHANGED <<visit, listing, terms, box, results, cursor, loads, writes, asked, touched, mixed>>

-----------------------------------------------------------------------------
(* GET /api/market/listings *)

Found(word) == IF word = Everything THEN Ids ELSE {i \in Ids : <<word, i>> \in terms}
After(i, after) ==
    \/ after = NoCursor
    \/ listing[i].rank < after.rank
    \/ listing[i].rank = after.rank /\ i < after.id
Sorted(ids) ==
    SetToSortSeq(ids, LAMBDA i, j : \/ listing[i].rank > listing[j].rank
                                    \/ listing[i].rank = listing[j].rank /\ i > j)

Rows(word, after) ==
    LET all == Sorted({i \in Found(word) : listing[i].status = "active" /\ After(i, after)})
    IN  SubSeq(all, 1, IF Len(all) > PageLimit THEN PageLimit + 1 ELSE Len(all))
Page(rows) == SubSeq(rows, 1, IF Len(rows) > PageLimit THEN PageLimit ELSE Len(rows))

CursorFor(i) == [rank |-> listing[i].rank, id |-> i]
\* One row more than the page tells that there is another.
BugNextCursor(rows) == IF Len(rows) > PageLimit THEN CursorFor(Last(rows)) ELSE NoCursor
NextCursor(rows) == IF Len(rows) > PageLimit THEN CursorFor(Last(Page(rows))) ELSE NoCursor

-----------------------------------------------------------------------------
(* The screen *)

TypeSearch(word) ==
    /\ box # word /\ box' = word
    /\ mixed' = TRUE
    /\ UNCHANGED <<visit, listing, terms, boots, results, cursor, loads, writes, asked, touched, cut>>

\* load(): the term is what is in the box now, whatever it was a page ago.
Load(after) ==
    /\ asked < visit.loads /\ asked' = asked + 1
    /\ loads' = loads \cup {[number |-> asked + 1, word |-> box, after |-> after]}
    /\ UNCHANGED <<visit, listing, terms, boots, box, results, cursor, writes, cut>>

Search ==
    /\ Load(NoCursor)
    /\ touched' = {i \in Ids : \E s \in Servers : HalfIndexed(s, i)}
    /\ mixed' = (loads # {})

\* The button is hidden while a page loads and when there is no more.
ShowMore ==
    /\ cursor # NoCursor /\ loads = {}
    /\ Load(cursor)
    /\ UNCHANGED <<visit, touched, mixed>>

\* Answers come in any order; the first page of a search clears the screen.
ShowPage(load) ==
    LET rows == Rows(load.word, load.after)
    IN  /\ loads' = loads \ {load}
        /\ cursor' = NextCursor(rows)
        /\ results' = (IF load.after = NoCursor THEN <<>> ELSE results) \o Page(rows)
        /\ UNCHANGED <<visit, listing, terms, boots, box, writes, asked, touched, cut, mixed>>

\* A lost answer leaves what is there, and a button to try again.
LoseAnswer(load) ==
    /\ loads' = loads \ {load}
    /\ results' = IF load.after = NoCursor THEN <<>> ELSE results
    /\ cursor' = load.after
    /\ mixed' = (mixed \/ load.after = NoCursor)
    /\ UNCHANGED <<visit, listing, terms, boots, box, writes, asked, touched, cut>>

CatalogueNext ==
    \/ \E i \in Ids, words \in Texts, rank \in Ranks : CreateListing(i, words, rank)
    \/ \E i \in Ids, words \in Texts : EditListingText(i, words)
    \/ \E i \in Ids, status \in {"active", "paused", "removed"}, rank \in Ranks :
           ChangeListing(i, status, rank)
    \/ \E s \in Servers : BeginBackfill(s) \/ BackfillRow(s) \/ BackfillTerm(s) \/ StopServer(s)
    \/ \E word \in Words \cup {Everything} : TypeSearch(word)
    \/ Search \/ ShowMore
    \/ \E load \in loads : ShowPage(load) \/ LoseAnswer(load)

-----------------------------------------------------------------------------
(* Properties *)

\* Whatever is listed, edited, removed or moved up meanwhile, and however pages
\* come and go: a reader who has paged to the end has been shown each listing
\* nobody touched exactly once if it is active and says the word, and not
\* otherwise.  It excepts a walk that another search overlapped, and two kinds of
\* listing, until their text is edited again: one that predates the index, which
\* no search for a word finds before a server that starts has written it; and one
\* whose index such a server was stopped in the middle of, found already written,
\* or wrote from a text it had read before an edit.  (search.ts: indexListing,
\* backfillSearchIndex; GET listings)
Says(i) == box = Everything \/ box \in ToSet(Tokens(listing[i].words))
Unindexed(i) == \A t \in terms : t[2] # i
WalkShowsAll ==
    (asked > 0 /\ loads = {} /\ cursor = NoCursor /\ ~mixed) =>
        \A i \in Ids \ (touched \cup cut) :
            Cardinality({n \in DOMAIN results : results[n] = i}) =
                IF listing[i].status = "active" /\ Says(i)
                   /\ ~(Unindexed(i) /\ box # Everything) THEN 1 ELSE 0

=============================================================================
