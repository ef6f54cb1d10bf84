------------------------------- MODULE MCWire -------------------------------
(* Two browsers, the message store between them, the screen one of them    *)
(* shows a conversation on, and its inbox, on small instances.  Mailbox    *)
(* and Chat look at the same code from two sides; none of the three shares *)
(* state with another: a behaviour is one of one of them, the others are   *)
(* at rest.  The two ends are alike, and so are the inbox's writers.       *)
EXTENDS Mailbox, Chat, Inbox, TLC

CONSTANTS Later
VARIABLE part

Symmetry == Permutations(Ends)

AllMessages == 1..3
AllNotes == 1..3
AllDevices == Later \cup {First}

-----------------------------------------------------------------------------
(* Bounds: a mix says how many messages are written, how many polls of a   *)
(* browser may overlap and which faults may meet in one behaviour; a scene *)
(* says the same of the conversation on the screen.                        *)

Mix(messages, overlap, kinds, most) ==
    [messages |-> messages, polls |-> overlap, kinds |-> kinds, most |-> most]
SmallMixes ==
    {Mix(2, 1, {"post", "delay", "answer", "expiry", "directory", "ack", "restart", "publish",
                "delete", "block", "revoke"}, 1),
     Mix(2, 1, {"ack", "restart", "answer"}, 2),
     Mix(2, 1, {"publish", "delete"}, 2),
     Mix(2, 2, {"ack", "restart"}, 1),
     Mix(3, 1, {}, 0)}

Scene(kinds, written, most) == [kinds |-> kinds, notes |-> written, most |-> most]
SmallScenes ==
    {Scene({"add", "replace", "dismiss", "write", "send", "shell"}, 2, 3),
     Scene({"add", "replace", "block", "ask", "dismiss", "write"}, 2, 3),
     Scene({"hours", "write", "send", "shell", "fail"}, 2, 1),
     Scene({"read", "delay", "send", "post", "shell", "fail"}, 3, 1),
     Scene({"delete", "erase", "write", "send", "add"}, 3, 2),
     Scene({"delete", "write", "add"}, 3, 3)}

Feed(kinds, writes, hours, pages, may) ==
    [kinds |-> kinds, writes |-> writes, hours |-> hours, loads |-> pages, may |-> may]
SmallFeeds ==
    {Feed({"message"}, 3, 3, 1, {"mark"}),
     Feed({"message", "order"}, 2, 2, 2, {"mark"}),
     Feed({"order", "message"}, 3, 1, 2, {}),
     Feed({"order"}, 3, 0, 3, {}),
     Feed({"order"}, 2, 0, 3, {"mark", "fail"}),
     Feed({"payout", "moderation"}, 2, 1, 1, {})}

-----------------------------------------------------------------------------

WireInit ==
    /\ part \in {"mail", "talk", "inbox"}
    /\ Init /\ ChatInit /\ InboxInit
    /\ part # "mail" => mix = CHOOSE m \in Mixes : TRUE
    /\ part # "talk" => scene = CHOOSE s \in Scenes : TRUE
    /\ part # "inbox" => feed = CHOOSE f \in Feeds : TRUE

WireNext ==
    \/ part = "mail" /\ Next /\ UNCHANGED <<part, chatVars, inboxVars>>
    \/ part = "talk" /\ ChatNext /\ UNCHANGED <<part, vars, inboxVars>>
    \/ part = "inbox" /\ InboxNext /\ UNCHANGED <<part, vars, chatVars>>

WireSpec == WireInit /\ [][WireNext]_<<part, vars, chatVars, inboxVars>>

=============================================================================
