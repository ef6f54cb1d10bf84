------------------------------- MODULE Vault -------------------------------
(***************************************************************************)
(* The sealed backup of an account's keys, and the browsers that hold it.  *)
(*                                                                         *)
(* A browser's keys are sealed under a random master key; the master key   *)
(* is wrapped twice, under the password and under the recovery phrase.     *)
(* The sealed vault with its two wraps is the backup: one copy in the      *)
(* browser, one on the server, one unlocked in the tab's memory.  This     *)
(* module adds the copies, and what the browsers do with them, to the      *)
(* requests of Accounts: a request of a browser carries what it sends.     *)
(*                                                                         *)
(* Code: src/client/state.ts, recovery.ts and linking.ts; the views that   *)
(* call them; src/shared/crypto/vault.ts; PUT /api/keys/vault.             *)
(*                                                                         *)
(* Master keys, passwords and phrases are numbers, in the order they are   *)
(* made; a wrap is the number of what opens it, 0 when there is none.  The *)
(* person at a browser types the password, or phrase, the server has.      *)
(***************************************************************************)
EXTENDS Accounts

ASSUME BrowsersAssumption ==
    \A m \in Mixes : /\ None \notin m.browsers /\ m.saved \in BOOLEAN
                     /\ "save" \in m.routes => m.browsers # {}

VARIABLES
    secret,      \* the password and phrase on the row of users; the last change of password
    vault,       \* the row of vaults
    late,        \* that row has been written by a request that overlapped a change
    browsers,    \* browser -> its session, tab and local storage
    carried,     \* slot -> what the request carries
    made         \* keys, passwords and phrases made so far

copies == <<secret, vault, late, browsers, carried, made>>
allVars == <<vars, copies>>

\* A backup, and whether the keys in it are those of a linked browser.
Backup(master, password, phrase) ==
    [master |-> master, password |-> password, phrase |-> phrase, linked |-> FALSE]
First == Backup(1, 1, 1)
NoBackup == Backup(0, 0, 0)

\* A browser's cookie, the keys its tab holds, its local copy, and the backup
\* a recovery still has to upload.
NoSession == MaxIssued + 1
Empty == [session |-> NoSession, held |-> NoBackup, local |-> NoBackup, rewrapped |-> NoBackup]

Carries(b, backup, password, phrase, overlap) ==
    [browser |-> b, backup |-> backup, password |-> password, phrase |-> phrase, overlap |-> overlap]

Nothing == Carries(None, NoBackup, 0, 0, FALSE)

\* createAccount: one browser has just registered, with a phrase; the first
\* backup is on the server, or its upload failed.
VaultInit ==
    /\ Init
    /\ secret = [password |-> 1, phrase |-> 1, by |-> "password"]
    /\ vault = IF mix.saved THEN First ELSE NoBackup
    /\ late = FALSE
    /\ made = 1
    /\ \E first \in mix.browsers \cup {None} :
           /\ (first = None) <=> (mix.browsers = {})
           /\ browsers = [b \in mix.browsers |->
                              IF b = first THEN [Empty EXCEPT !.session = 0, !.held = First, !.local = First]
                              ELSE Empty]
    /\ carried = [c \in Requests |-> Nothing]

\* The sign-in view: it sends one request at a time.
Locked(b) ==
    /\ browsers[b].held = NoBackup
    /\ browsers[b].rewrapped = NoBackup
    /\ \A c \in Requests : carried[c].browser # b
Becomes(b, browser) == browsers' = [browsers EXCEPT ![b] = browser]
Holds(b, backup) == [browsers[b] EXCEPT !.held = backup]
Brings(c, load) == carried' = [carried EXCEPT ![c] = load]

\* A request that has ended carries nothing.
Drop == carried' = [c \in Requests |-> IF requests'[c] = Idle THEN Nothing ELSE carried[c]]
others == <<secret, vault, late, browsers, made>>

-----------------------------------------------------------------------------
(* A browser sends a request *)

\* login, and link/claim under a code another browser authorised.
SignIn(b, c) ==
    /\ requests'[c].route \in {"login", "claim"}
    /\ Locked(b)
    /\ "reload" \in mix.features \/ browsers[b].local = NoBackup
    /\ Brings(c, Carries(b, NoBackup, secret.password, 0, FALSE))
    /\ UNCHANGED <<browsers, made>>

\* recoverAccount: a new password is made here.
Recover(b, c) ==
    /\ requests'[c].route = "recover"
    /\ Locked(b)
    /\ "reload" \in mix.features \/ browsers[b].local = NoBackup
    /\ made' = made + 1
    /\ Brings(c, Carries(b, NoBackup, made + 1, secret.phrase, FALSE))
    /\ UNCHANGED browsers

\* changePassword: the current password must open the wrap in memory; the new
\* wrap replaces it there before the server has answered.
NewPassword(b) == [browsers[b].held EXCEPT !.password = made + 1]

ChangePassword(b, c, s) ==
    /\ requests'[c].route = "password"
    /\ browsers[b].held.password = secret.password
    /\ made' = made + 1
    /\ Becomes(b, Holds(b, NewPassword(b)))
    /\ Brings(c, Carries(b, NewPassword(b), made + 1, 0, s.overlap))

\* setRecoveryPhrase: in memory the new wrap waits for the answer.
SetRecoveryPhrase(b, c, s) ==
    /\ requests'[c].route = "phrase"
    /\ made' = made + 1
    /\ Brings(c, Carries(b, [browsers[b].held EXCEPT !.phrase = made + 1], 0, made + 1, s.overlap))
    /\ UNCHANGED browsers

\* persistVault: the local copy is written, then the same snapshot is sent; a
\* linked browser only writes its own.  A recovery uploads before it holds.
Uploads(b) ==
    IF browsers[b].rewrapped # NoBackup THEN browsers[b].rewrapped
    ELSE IF browsers[b].held.linked THEN NoBackup
    ELSE browsers[b].held

PersistVault(b, c, s) ==
    /\ requests'[c].route = "save"
    /\ Uploads(b) # NoBackup
    /\ Brings(c, Carries(b, Uploads(b), 0, 0, s.overlap))
    /\ Becomes(b, [browsers[b] EXCEPT !.local = IF browsers[b].rewrapped = NoBackup THEN browsers[b].held ELSE @])
    /\ UNCHANGED made

\* authoriseDevice.
AuthoriseDevice(b, c) ==
    /\ requests'[c].route = "link"
    /\ Brings(c, Carries(b, NoBackup, 0, 0, FALSE))
    /\ UNCHANGED <<browsers, made>>

Send(c) ==
    /\ Begin(c)
    /\ IF mix.browsers = {} THEN UNCHANGED copies
       ELSE /\ UNCHANGED <<secret, vault, late>>
            /\ \/ \E b \in mix.browsers : SignIn(b, c) \/ Recover(b, c)
               \/ requests'[c].route = "recovery" /\ UNCHANGED <<browsers, carried, made>>
               \/ \E b \in mix.browsers, s \in sessions :
                      /\ s.id = browsers[b].session
                      /\ s.id = requests'[c].session
                      /\ \/ PersistVault(b, c, s)
                         \/ /\ browsers[b].held # NoBackup
                            /\ \/ ChangePassword(b, c, s)
                               \/ SetRecoveryPhrase(b, c, s)
                               \/ AuthoriseDevice(b, c)

-----------------------------------------------------------------------------
(* The server writes *)

\* The routes that change a password or a phrase write the backup they were
\* sent in the same transaction; a recovery is sent none.
Stored(r, load) == IF r.route \in {"password", "phrase"} THEN load.backup ELSE vault

\* A request that was under way while another changed the row of users, or
\* came before that change had revoked its session.
Overlaps(c) ==
    requests[c].overlap \/ carried[c].overlap \/ \E d \in Requests \ {c} : At(d, "revoke")

CommitSecrets(c) ==
    LET r == requests[c]
        load == carried[c]
    IN  /\ Commit(c)
        /\ IF mix.browsers = {} THEN UNCHANGED copies
           ELSE /\ secret' = [password |-> IF r.route = "phrase" THEN secret.password ELSE load.password,
                              phrase |-> IF r.route = "phrase" THEN load.phrase ELSE secret.phrase,
                              by |-> IF r.route = "phrase" THEN secret.by ELSE r.route]
                /\ vault' = Stored(r, load)
                /\ late' = (late \/ (r.route # "recover" /\ Overlaps(c)))
                /\ UNCHANGED <<browsers, carried, made>>

\* PUT /api/keys/vault, after its session was found: the row is replaced
\* whatever has changed since.  The browser that recovers holds the keys now.
WriteBackup(c) ==
    LET load == carried[c]
        b == load.browser
    IN  /\ At(c, "write")
        /\ Goes(c, Idle)
        /\ vault' = load.backup
        /\ late' = (late \/ Overlaps(c))
        /\ browsers' = IF b # None /\ load.backup = browsers[b].rewrapped
                       THEN [browsers EXCEPT ![b] = [@ EXCEPT !.held = load.backup, !.local = load.backup,
                                                              !.rewrapped = NoBackup]]
                       ELSE browsers
        /\ Drop
        /\ UNCHANGED <<bounds, account, sessions, tickets, issued, answered, torn, secret, made>>

-----------------------------------------------------------------------------
(* The browser gets its answer *)

\* initialiseVault: a new master key and no wrap for the phrase.
NewVault(password) == Backup(made + 1, password, 0)

\* finishLogin: the local copy first, then the server's; one that the password
\* does not open is an error, and the tab stays locked.
Opened(from, password) ==
    IF from = NoBackup THEN NewVault(password)
    ELSE IF from.password = password THEN from ELSE NoBackup

FinishLogin(browser, load) ==
    [browser EXCEPT !.held = Opened(IF browser.local # NoBackup THEN browser.local ELSE vault,
                                    load.password)]

\* recoverAccount and the view after it: the phrase opens its wrap, and the
\* master key is wrapped under the new password; a backup without that wrap
\* is replaced by a new vault.
FinishRecovery(browser, load) ==
    IF vault.phrase = 0
    THEN [browser EXCEPT !.held = NewVault(load.password), !.local = NoBackup]
    ELSE IF vault.phrase # load.phrase THEN browser
    ELSE [browser EXCEPT !.rewrapped = [vault EXCEPT !.password = load.password]]

\* adoptLinkedIdentity: keys of its own, under a password of its own or not.
Adopt(browser, password) == [browser EXCEPT !.held = [NewVault(password) EXCEPT !.linked = TRUE]]

\* changePassword, after the answer.
Changed(browser, load) == [browser EXCEPT !.local = load.backup]

AfterMint(route, browser, load) ==
    CASE route = "login"    -> {FinishLogin(browser, load)}
      [] route = "claim"    -> {Adopt(browser, made + 1), Adopt(browser, load.password)}
      [] route = "recover"  -> {FinishRecovery(browser, load)}
      [] route = "password" -> {Changed(browser, load)}

\* The answer with the new cookie arrives, or is lost.
SignedIn(c) ==
    LET load == carried[c]
        b == load.browser
    IN  /\ Mint(c)
        /\ Drop
        /\ \/ /\ b # None
              /\ \E browser \in AfterMint(requests[c].route, [browsers[b] EXCEPT !.session = issued + 1], load) :
                     Becomes(b, browser)
              /\ made' = made + 1
           \/ (b = None \/ "lose" \in mix.features) /\ UNCHANGED <<browsers, made>>
        /\ UNCHANGED <<secret, vault, late>>

\* The view puts the new wrap in memory when the phrase is set; the local copy
\* is written by the next save.
BugPhraseSet(browser, load) == browser
PhraseSet(browser, load) == [browser EXCEPT !.held.phrase = load.phrase]

RevokeAndAnswer(c) ==
    LET load == carried[c]
        b == load.browser
    IN  /\ Revoke(c)
        /\ Drop
        /\ \/ b # None /\ requests[c].route = "phrase" /\ Becomes(b, PhraseSet(browsers[b], load))
           \/ (b = None \/ requests[c].route # "phrase" \/ "lose" \in mix.features) /\ UNCHANGED browsers
        /\ UNCHANGED <<secret, vault, late, made>>

-----------------------------------------------------------------------------
(* What a browser does alone *)

\* A tab is closed, or signed out, and hears no more; a browser is wiped; a save does not get
\* through; a change of password does not, and the new wrap stays in memory.
Close(b) ==
    /\ browsers[b].held # NoBackup \/ browsers[b].rewrapped # NoBackup
    /\ \/ Becomes(b, [browsers[b] EXCEPT !.held = NoBackup, !.rewrapped = NoBackup])
       \/ Becomes(b, Empty)
    /\ carried' = [c \in Requests |-> IF carried[c].browser = b THEN [carried[c] EXCEPT !.browser = None]
                                      ELSE carried[c]]
    /\ UNCHANGED made

SaveLocally(b) ==
    /\ browsers[b].held # NoBackup
    /\ browsers[b].local # browsers[b].held
    /\ Becomes(b, [browsers[b] EXCEPT !.local = browsers[b].held])
    /\ UNCHANGED <<carried, made>>

ChangeRefused(b) ==
    /\ "refuse" \in mix.features
    /\ made < mix.calls
    /\ browsers[b].held # NoBackup
    /\ browsers[b].held.password = secret.password
    /\ Becomes(b, Holds(b, NewPassword(b)))
    /\ made' = made + 1
    /\ UNCHANGED carried

Alone ==
    /\ \E b \in mix.browsers : Close(b) \/ SaveLocally(b) \/ ChangeRefused(b)
    /\ UNCHANGED <<vars, secret, vault, late>>

VaultNext ==
    \/ \E c \in Requests :
           \/ Send(c) \/ CommitSecrets(c) \/ WriteBackup(c) \/ SignedIn(c) \/ RevokeAndAnswer(c)
           \/ (Issue(c) \/ ReadKey(c) \/ Take(c) \/ CommitTake(c) \/ Check(c)) /\ Drop /\ UNCHANGED others
    \/ (EndSessions \/ Expire \/ Stop) /\ Drop /\ UNCHANGED others
    \/ Alone

VaultSpec == VaultInit /\ [][VaultNext]_allVars

-----------------------------------------------------------------------------
(* Properties *)

\* The backup of the vault follows its owner.
\*  - No sequence of saves, sign-ins, recoveries and lost answers puts other
\*    keys over the first browser's.
\*  - It is not behind the password: when its wrap is older, a request that
\*    overlapped a change wrote it, or the last change was a recovery whose
\*    browser has not uploaded yet, or the server stopped before it revoked.
\*  - The phrase that takes the account also opens it, as long as every tab that
\*    held keys got its answers and none was reopened on a local copy.
\* The first and the last hold while the first browser's backup can be found and
\* no linked browser, which has keys of its own, changes a password or sets a phrase.
\* (state.ts: persistVault, unlockBackup, changePassword; views/auth.ts:
\* finishLogin; client/recovery.ts: setRecoveryPhrase; auth.ts, recovery.ts)
OneOwner == mix.saved /\ ("claim" \in mix.routes => {"password", "phrase"} \cap mix.routes = {})

BackupFollowsItsOwner ==
    /\ OneOwner => vault.master = 1
    /\ vault # NoBackup /\ vault.password < secret.password =>
           late \/ torn \/ secret.by = "recover"
    /\ OneOwner /\ mix.features \cap {"reload", "lose"} = {} =>
           vault.phrase = secret.phrase \/ late \/ torn

=============================================================================
