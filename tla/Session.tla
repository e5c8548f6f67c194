------------------------------- MODULE Session ------------------------------
(***************************************************************************)
(* Who is logged in: the configuration file, the store's credentials and    *)
(* the server they are sent to, the check at start-up, the login and        *)
(* register pages, and the account shown in the frame.                      *)
(*                                                                         *)
(* Handlers and callbacks run under the application lock, so each is one    *)
(* action.  The worker serves the newest request first; a page is destroyed *)
(* when another one replaces it, whether or not its requests were answered. *)
(***************************************************************************)
EXTENDS Widgets, Sequences, FiniteSets

CONSTANTS
    Users, Passwords,   \* what the user may type in the login page
    Accounts,           \* the pairs of them that the server accepts
    Files,              \* what the file may hold before the program first runs
    Groups, Other,      \* the default categories, and the last of them
    Catalogues,         \* answers of the server about its categories
    Forms,              \* ways to fill the register page
    MaxClicks,          \* bound on starts and presses
    Unreadable,         \* a file that is no key file
    NULL

Fields == {"username", "password", "firstname", "lastname", "email"}
Names == Users \cup {"", NULL}
Secrets == Passwords \cup {"", NULL}
Pairs == [user : Names, pwd : Secrets]
NoPair == [user |-> NULL, pwd |-> NULL]
Ids == {c.id : c \in UNION Catalogues}

ASSUME AccountAssumption == Accounts \subseteq [user : Users, pwd : Passwords]
ASSUME FileAssumption == Files \subseteq Pairs \cup {NULL, Unreadable}
ASSUME NullAssumption ==
    /\ NULL \notin Users \cup Passwords \cup {"", Unreadable}
    /\ "" \notin Users \cup Passwords
    /\ {NULL, Unreadable} \cap Pairs = {}
ASSUME GroupAssumption ==
    /\ Other \in Groups
    /\ \A c \in UNION Catalogues : c.hits \subseteq Groups /\ c.named \in BOOLEAN
    /\ \A list \in Catalogues : \A c, d \in list : c.id = d.id => c = d
    /\ NULL \notin Catalogues /\ "-1" \notin Ids
ASSUME FormAssumption == Forms \subseteq [Fields -> Texts] /\ MaxClicks \in Nat

VARIABLES
    file,       \* ~/.config/gnome-app-store/config
    up,         \* whether the program runs
    keys,       \* its key file: a pair, or NULL when it could not be read
    user, pwd,  \* the store's credentials
    url,        \* those in the address of the store's rest proxy, or NULL
    cids,       \* the server's categories of each default category
    page, made, \* what the stage shows, and the number of pages made
    login,      \* the widgets of the login page
    regist,     \* texts of the register page
    told,       \* fields of the register page with a warning
    account,    \* the account panel of the frame
    locked,     \* whether the frame waits for its list
    queue,      \* requests that wait for the worker, the next one first
    preloads,   \* groups of categories whose applications are to be preloaded
    hand,       \* the request the worker is busy with, or NULL
    stored,     \* requests the proxy has an answer of
    catalogue,  \* the answer about the categories that the proxy has, or NULL
    clicks,     \* starts and presses so far
    edited,     \* history: an entry was changed while a check was going on
    kept        \* history: what the last logins promise the next start

storeVars == <<user, pwd, url>>
pageVars == <<page, made, login, regist, told, account, locked>>
proxyVars == <<stored, catalogue, cids>>
workVars == <<queue, preloads, hand>>
vars == <<file, up, keys, storeVars, pageVars, proxyVars, workVars, clicks, edited, kept>>

Stage == 0
NoForm == [user |-> NewEntry, pwd |-> NewEntry, save |-> NewCheckBox]
NoTexts == [f \in Fields |-> ""]
NoAccount == [person |-> NULL, offers |-> FALSE, filled |-> FALSE]

Clicks == clicks < MaxClicks /\ clicks' = clicks + 1

(***************************************************************************)
(* The configuration file.                                                  *)
(***************************************************************************)

\* open_app_config_get_username and get_password: an empty value is none.
GetValue(text) == IF text = "" THEN NULL ELSE text

\* Mutant of Saved: without a password to save, the old one is removed.
SavedAlone(k, name, secret) == [user |-> name, pwd |-> secret]

\* open_app_config_save: without a password to save, the old one stays.
Saved(k, name, secret) == [user |-> name, pwd |-> IF secret = NULL THEN k.pwd ELSE secret]

(***************************************************************************)
(* Requests.  A task takes the store's rest proxy when it is made.          *)
(***************************************************************************)

\* Mutant of Address: a password is taken for granted.
AddressByName(k, name, secret) ==
    IF k # NULL /\ name # NULL THEN [user |-> name, pwd |-> secret] ELSE NULL

\* Mutant of Address: without credentials the old address stays.
AddressKept(k, name, secret) ==
    IF k # NULL /\ name # NULL /\ secret # NULL
    THEN [user |-> name, pwd |-> secret] ELSE url

\* set_rest_proxy; without a server address nothing changes.
Address(k, name, secret) ==
    IF k # NULL /\ name # NULL /\ secret # NULL
    THEN [user |-> name, pwd |-> secret] ELSE NULL

NewTask(kind, p, arg, creds) == [kind |-> kind, page |-> p, arg |-> arg, url |-> creds]

Key(kind, arg) == <<kind, arg>>

\* gnome_app_task_push; there is no queue if the server is not known.
Enqueued(q, task) == IF keys = NULL THEN q ELSE <<task>> \o q

Asked(q, task) ==
    IF Key(task.kind, task.arg) \in stored THEN q ELSE Enqueued(q, task)

(***************************************************************************)
(* The categories (gnome_app_store_init_category and its callback).         *)
(***************************************************************************)

\* Mutant of ListedIn: categories that match nothing are dropped.
ListedInMatched(c, g) == c.named /\ g \in c.hits

\* A category goes to every group whose first three letters its name has, and
\* to the last group if there is none; without id or name it is passed over.
ListedIn(c, g) == c.named /\ (g \in c.hits \/ (c.hits = {} /\ g = Other))

SetupCategory(list) ==
    LET ids == [g \in Groups |-> {c.id : c \in {d \in list : ListedIn(d, g)}}] IN
    /\ cids' = [g \in Groups |-> IF ids[g] # {} THEN ids[g] ELSE cids[g]]
    /\ preloads' = preloads \cup {s \in {ids[g] : g \in Groups} :
                                     s # {} /\ Key("preload", s) \notin stored}

\* gnome_app_store_get_cids_by_name
CidsByName(g) == IF cids[g] = {} THEN {"-1"} ELSE cids[g]

(***************************************************************************)
(* Pages, as gnome_app_stage_load makes them.                               *)
(***************************************************************************)

NewPage(type) == /\ page' = type
                 /\ made' = made + 1
                 /\ locked' = FALSE
                 /\ account' = NoAccount

\* The login page; its entries take the values it is loaded with.
LoadLogin(name, secret) ==
    LET Set(value) == IF value = NULL THEN NewEntry ELSE TextChanged(NewEntry, value) IN
    /\ NewPage("Login")
    /\ login' = [user |-> Set(name), pwd |-> Set(secret), save |-> NewCheckBox]
    /\ regist' = NoTexts
    /\ told' = {}

LoadOther(type) == /\ NewPage(type)
                   /\ login' = NoForm
                   /\ regist' = NoTexts
                   /\ told' = {}

\* gnome_app_account_init and gnome_app_account_load
NewAccount(name) ==
    [person |-> name, offers |-> name = NULL, filled |-> Key("person", name) \in stored]

\* The frame: its account asks for the person, itself for the categories and
\* the default list, which locks it.
LoadFrame(name, creds) ==
    LET task(kind, arg) == NewTask(kind, made + 1, arg, creds)
        list == task("list", NULL)
        person == IF name = NULL THEN queue ELSE Asked(queue, task("person", name))
        categories == IF catalogue # NULL THEN person
                      ELSE Enqueued(person, NewTask("categories", Stage, NULL, creds))
    IN  /\ page' = "Frame"
        /\ made' = made + 1
        /\ account' = NewAccount(name)
        /\ locked' = (Key("list", NULL) \notin stored)
        /\ queue' = Asked(categories, list)
        /\ IF catalogue # NULL THEN SetupCategory(catalogue) ELSE UNCHANGED <<cids, preloads>>
        /\ login' = NoForm
        /\ regist' = NoTexts
        /\ told' = {}

(***************************************************************************)
(* The program starts and ends.                                             *)
(***************************************************************************)

\* What is left in memory of a program that does not run.
Blank ==
    /\ up' = FALSE /\ keys' = NULL /\ user' = NULL /\ pwd' = NULL /\ url' = NULL
    /\ cids' = [g \in Groups |-> {}] /\ catalogue' = NULL /\ stored' = {}
    /\ page' = "none" /\ made' = 0 /\ locked' = FALSE /\ account' = NoAccount
    /\ login' = NoForm /\ regist' = NoTexts /\ told' = {}
    /\ queue' = <<>> /\ preloads' = {} /\ hand' = NULL
    /\ edited' = FALSE

\* The window is closed, or freed memory is used.
End == Blank /\ UNCHANGED <<file, clicks, kept>>

\* Mutant of AuthValid: a user name is enough.
AuthValidByName(k) == k.user # NULL

\* gnome_app_stage_init checks the credentials of the file.
AuthValid(k) == GetValue(k.user) # NULL /\ GetValue(k.pwd) # NULL

\* main: the store reads the file, or writes one without credentials; the stage
\* shows a page at once or, if there are credentials, when they were checked.
StartUp ==
    /\ ~up
    /\ Clicks
    /\ up' = TRUE
    /\ file' = IF file = NULL THEN NoPair ELSE file
    /\ LET k == IF file = Unreadable THEN NoPair ELSE file' IN
       /\ keys' = IF file = Unreadable THEN NULL ELSE k
       /\ user' = GetValue(k.user)
       /\ pwd' = GetValue(k.pwd)
       /\ url' = Address(keys', user', pwd')
       /\ IF AuthValid(k)
          THEN /\ queue' = <<NewTask("start", Stage, k, url')>>
               /\ UNCHANGED pageVars
          ELSE /\ LoadLogin(GetValue(k.user), GetValue(k.pwd))
               /\ UNCHANGED queue
    /\ UNCHANGED <<proxyVars, preloads, hand, edited, kept>>

Quit == up /\ page # "none" /\ End

(***************************************************************************)
(* The login page.                                                          *)
(***************************************************************************)

Entries == {"user", "pwd"}
Choices(e) == IF e = "user" THEN Users \cup {""} ELSE Passwords \cup {""}

\* The key focus leaves one entry for the other.
Focus(e) ==
    /\ page = "Login"
    /\ ~login[e].focus
    /\ login' = [login EXCEPT ![e] = FocusIn(@),
                              ![CHOOSE f \in Entries : f # e] = FocusOut(@)]
    /\ UNCHANGED <<file, up, keys, storeVars, page, made, regist, told, account, locked,
                   proxyVars, workVars, clicks, edited, kept>>

Requests == {hand} \cup {queue[i] : i \in DOMAIN queue}
CheckPending == \E r \in Requests \ {NULL} : r.kind = "check" /\ r.page = made

Type(e, text) ==
    /\ page = "Login"
    /\ login[e].focus
    /\ text # login[e].text
    /\ login' = [login EXCEPT ![e] = TextChanged(@, text)]
    /\ edited' = (edited \/ CheckPending)
    /\ UNCHANGED <<file, up, keys, storeVars, page, made, regist, told, account, locked,
                   proxyVars, workVars, clicks, kept>>

PressAutologin ==
    /\ page = "Login"
    /\ login' = [login EXCEPT !.save = PressCheckBox(@)]
    /\ UNCHANGED <<file, up, keys, storeVars, page, made, regist, told, account, locked,
                   proxyVars, workVars, clicks, edited, kept>>

\* on_login_press: two texts are sent to be checked.
OnLoginPress ==
    /\ page = "Login"
    /\ login.user.text # "" /\ login.pwd.text # ""
    /\ Clicks
    /\ queue' = Enqueued(queue, NewTask("check", made,
                            [user |-> login.user.text, pwd |-> login.pwd.text], url))
    /\ UNCHANGED <<file, up, keys, storeVars, pageVars, proxyVars, preloads, hand, edited, kept>>

\* on_guest_login_press: "save" without a user name does nothing.
OnGuestLoginPress ==
    /\ page = "Login"
    /\ Clicks
    /\ user' = NULL /\ pwd' = NULL /\ url' = Address(keys, NULL, NULL)
    /\ edited' = FALSE
    /\ LoadFrame(NULL, NULL)
    /\ UNCHANGED <<file, up, keys, stored, catalogue, hand, kept>>

(***************************************************************************)
(* The register page, and the ways between the pages.                       *)
(***************************************************************************)

OnRegisterPress ==
    /\ page = "Login"
    /\ Clicks
    /\ LoadOther("Register")
    /\ UNCHANGED <<file, up, keys, storeVars, proxyVars, workVars, edited, kept>>

OnBackButtonPress ==
    /\ page = "Register"
    /\ Clicks
    /\ LoadLogin(NULL, NULL)
    /\ UNCHANGED <<file, up, keys, storeVars, proxyVars, workVars, edited, kept>>

Pattern == [username |-> "notblank", password |-> "password", firstname |-> "notblank",
            lastname |-> "notblank", email |-> "email"]

\* The user fills the page in one of the ways of Forms.
Fill(form) ==
    /\ page = "Register"
    /\ regist' = form
    /\ UNCHANGED <<file, up, keys, storeVars, page, made, login, told, account, locked,
                   proxyVars, workVars, clicks, edited, kept>>

\* on_register_button_press
OnRegisterButtonPress ==
    /\ page = "Register"
    /\ Clicks
    /\ told' = {f \in Fields : ~PatternMatch(Pattern[f], regist[f])}
    /\ queue' = IF told' = {} THEN Enqueued(queue, NewTask("add", made, NULL, url)) ELSE queue
    /\ UNCHANGED <<file, up, keys, storeVars, page, made, login, regist, account, locked,
                   proxyVars, preloads, hand, edited, kept>>

\* on_account_login_press; the stage does not replace a locked frame.
OnAccountLoginPress ==
    /\ page = "Frame" /\ account.offers
    /\ Clicks
    /\ IF locked THEN UNCHANGED pageVars ELSE LoadLogin(NULL, NULL)
    /\ UNCHANGED <<file, up, keys, storeVars, proxyVars, workVars, edited, kept>>

\* An application of the list is pressed, and its page left again.
OnInfoIconEvent ==
    /\ page = "Frame" /\ ~locked /\ Key("list", NULL) \in stored
    /\ Clicks
    /\ LoadOther("InfoPage")
    /\ UNCHANGED <<file, up, keys, storeVars, proxyVars, workVars, edited, kept>>

OnReturnPress ==
    /\ page = "InfoPage"
    /\ Clicks
    /\ LoadFrame(user, url)
    /\ UNCHANGED <<file, up, keys, storeVars, stored, catalogue, hand, edited, kept>>

(***************************************************************************)
(* The worker and the callbacks.                                            *)
(***************************************************************************)

\* Preloads have the lowest priority.
WorkerTakes ==
    /\ hand = NULL
    /\ \/ /\ queue # <<>>
          /\ hand' = Head(queue)
          /\ queue' = Tail(queue)
          /\ UNCHANGED preloads
       \/ /\ queue = <<>>
          /\ \E s \in preloads : /\ hand' = NewTask("preload", Stage, s, NULL)
                                 /\ preloads' = preloads \ {s}
          /\ UNCHANGED queue
    /\ UNCHANGED <<file, up, keys, storeVars, pageVars, proxyVars, clicks, edited, kept>>

Served(kind) == hand # NULL /\ hand.kind = kind
Alive == hand.page \in {Stage, made}
InStore == Key(hand.kind, hand.arg) \in stored

\* What rest_proxy_call_sync may return; what the proxy has needs no call.
Answers ==
    IF InStore THEN {"ok"}
    ELSE IF hand.kind \in {"start", "check"} /\ hand.arg \notin Accounts
    THEN {"refused", "lost"} ELSE {"ok", "refused", "lost"}

\* gnome_app_proxy_add
Store(answer) ==
    stored' = IF answer = "ok" THEN stored \cup {Key(hand.kind, hand.arg)} ELSE stored

\* Mutant of Valid: everything but a refusal is taken for success.
ValidUnlessRefused(answer) == answer # "refused"

Valid(answer) == answer = "ok"

\* Mutant of OnStartAnswered: only an accepted check shows a page.
OnStartAccepted(answer) ==
    /\ Served("start")
    /\ hand' = NULL
    /\ IF Valid(answer) THEN LoadFrame(user, url)
       ELSE UNCHANGED <<pageVars, queue, preloads, cids>>
    /\ UNCHANGED <<file, up, keys, storeVars, stored, catalogue, clicks, edited, kept>>

\* auth_valid_callback of the stage
OnStartAnswered(answer) ==
    /\ Served("start")
    /\ hand' = NULL
    /\ IF Valid(answer) THEN LoadFrame(user, url)
       ELSE LoadLogin(user, pwd) /\ UNCHANGED <<queue, preloads, cids>>
    /\ UNCHANGED <<file, up, keys, storeVars, stored, catalogue, clicks, edited, kept>>

\* auth_valid_callback of the login page takes the entries as they are now.
LoginAs == [user |-> login.user.text, pwd |-> login.pwd.text]

\* Writing the file may fail, which ends the program (g_error).
OnCheckAccepted ==
    /\ hand' = NULL
    /\ user' = LoginAs.user /\ pwd' = LoginAs.pwd
    /\ url' = Address(keys, user', pwd')
    /\ keys' = Saved(keys, user', IF login.save.selected THEN pwd' ELSE NULL)
    /\ file' = keys'
    /\ kept' = [user |-> GetValue(user'),
                pwd |-> IF login.save.selected THEN GetValue(pwd') ELSE kept.pwd]
    /\ LoadFrame(user', url')
    /\ UNCHANGED <<up, stored, catalogue, clicks, edited>>

\* A page that is no more: the callback uses freed memory.
OnStaleAnswered(answer) ==
    /\ hand # NULL /\ ~Alive
    /\ \/ End
       \/ /\ ~(hand.kind = "check" /\ Valid(answer))
          /\ hand' = NULL
          /\ IF hand.kind = "person" THEN Store(answer) ELSE UNCHANGED stored
          /\ UNCHANGED <<file, up, keys, storeVars, pageVars, catalogue, cids, queue,
                         preloads, clicks, edited, kept>>

OnCheckAnswered(answer) ==
    /\ Served("check") /\ Alive
    /\ \/ Valid(answer) /\ (OnCheckAccepted \/ End)
       \/ /\ ~Valid(answer)
          /\ hand' = NULL
          /\ UNCHANGED <<file, up, keys, storeVars, pageVars, proxyVars, queue, preloads,
                         clicks, edited, kept>>

\* register_callback: without an answer atoi is given NULL; the codes 104 to
\* 106 put a warning at the user name or the email address.
OnAddAnswered(answer) ==
    /\ Served("add") /\ Alive
    /\ \/ answer = "lost" /\ End
       \/ /\ answer # "lost"
          /\ hand' = NULL
          /\ \/ told' = told
             \/ answer = "refused" /\ \E f \in {"username", "email"} : told' = told \cup {f}
          /\ UNCHANGED <<file, up, keys, storeVars, page, made, login, regist, account,
                         locked, proxyVars, queue, preloads, clicks, edited, kept>>

\* category_task_callback
OnCategoriesAnswered(answer) ==
    /\ Served("categories")
    /\ hand' = NULL
    /\ IF catalogue # NULL THEN SetupCategory(catalogue) /\ UNCHANGED catalogue
       ELSE IF answer = "ok"
       THEN \E list \in Catalogues : catalogue' = list /\ SetupCategory(list)
       ELSE UNCHANGED <<cids, preloads, catalogue>>
    /\ UNCHANGED <<file, up, keys, storeVars, pageVars, stored, queue, clicks, edited, kept>>

\* set_account_callback, task_callback of the frame, and tasks without one.
OnDataAnswered(answer) ==
    /\ hand # NULL /\ hand.kind \in {"person", "list", "preload"} /\ Alive
    /\ hand' = NULL
    /\ Store(answer)
    /\ account' = IF hand.kind = "person" /\ answer = "ok"
                  THEN [account EXCEPT !.filled = TRUE, !.offers = FALSE] ELSE account
    /\ locked' = (locked /\ hand.kind # "list")
    /\ UNCHANGED <<file, up, keys, storeVars, page, made, login, regist, told, catalogue,
                   cids, queue, preloads, clicks, edited, kept>>

WorkerAnswers ==
    /\ hand # NULL
    /\ \E answer \in Answers :
          \/ OnStaleAnswered(answer) \/ OnStartAnswered(answer) \/ OnCheckAnswered(answer)
          \/ OnAddAnswered(answer) \/ OnCategoriesAnswered(answer) \/ OnDataAnswered(answer)

Init ==
    /\ file \in Files
    /\ up = FALSE /\ keys = NULL /\ user = NULL /\ pwd = NULL /\ url = NULL
    /\ cids = [g \in Groups |-> {}] /\ catalogue = NULL /\ stored = {}
    /\ page = "none" /\ made = 0 /\ locked = FALSE /\ account = NoAccount
    /\ login = NoForm /\ regist = NoTexts /\ told = {}
    /\ queue = <<>> /\ preloads = {} /\ hand = NULL
    /\ clicks = 0 /\ edited = FALSE
    /\ kept = IF file \in {NULL, Unreadable} THEN NoPair
              ELSE [user |-> GetValue(file.user), pwd |-> GetValue(file.pwd)]

Typing == \E e \in Entries : Focus(e) \/ \E text \in Choices(e) : Type(e, text)
Filling == \E form \in Forms : Fill(form)

Presses == \/ PressAutologin \/ OnLoginPress \/ OnGuestLoginPress
           \/ OnRegisterPress \/ OnBackButtonPress \/ OnRegisterButtonPress
           \/ OnAccountLoginPress \/ OnInfoIconEvent \/ OnReturnPress

Next == StartUp \/ Quit \/ Typing \/ Filling \/ Presses \/ WorkerTakes \/ WorkerAnswers

Spec == Init /\ [][Next]_vars

\* The worker's thread runs, and a call to the server returns or fails.
FairSpec == Spec /\ WF_vars(WorkerTakes) /\ WF_vars(WorkerAnswers)

-----------------------------------------------------------------------------
Checks == {"start", "check"}
Entry(texts) == [text : texts, focus : BOOLEAN, hint : BOOLEAN]
Url == [user : Users \cup {""}, pwd : Passwords \cup {""}] \cup {NULL}
Request == [kind : Checks, page : Nat, arg : [user : Users, pwd : Passwords], url : Url]
           \cup [kind : {"person"}, page : Nat, arg : Users \cup {""}, url : Url]
           \cup [kind : {"preload"}, page : Nat, arg : SUBSET Ids, url : Url]
           \cup [kind : {"add", "categories", "list"}, page : Nat, arg : {NULL}, url : Url]

\* Every variable is of its type.
TypeOK ==
    /\ file \in Pairs \cup {NULL, Unreadable} /\ keys \in Pairs \cup {NULL}
    /\ up \in BOOLEAN /\ edited \in BOOLEAN /\ locked \in BOOLEAN
    /\ user \in Names /\ pwd \in Secrets /\ url \in Url /\ kept \in Pairs
    /\ cids \in [Groups -> SUBSET Ids] /\ preloads \subseteq SUBSET Ids
    /\ catalogue \in Catalogues \cup {NULL}
    /\ page \in {"none", "Login", "Register", "Frame", "InfoPage"}
    /\ made \in Nat /\ clicks \in 0 .. MaxClicks
    /\ login \in [user : Entry(Users \cup {""}), pwd : Entry(Passwords \cup {""}),
                  save : [selected : BOOLEAN]]
    /\ regist \in [Fields -> Texts] /\ told \subseteq Fields
    /\ account \in [person : Names, offers : BOOLEAN, filled : BOOLEAN]
    /\ queue \in Seq(Request) /\ hand \in Request \cup {NULL}

\* No one gets past the login page with credentials that the server has not
\* accepted, unless an entry was changed while its check was going on.
Admitted ==
    page \in {"Frame", "InfoPage"} /\ ~edited =>
        user = NULL \/ [user |-> user, pwd |-> pwd] \in Accounts

\* What a frame shows and asks is of one user: its account is the store's user,
\* guests alone are offered to log in, and its requests, like the store's proxy,
\* carry the name and password of the store.
ShownIsUsed ==
    page = "Frame" =>
        /\ account.person = user
        /\ account.offers = (user = NULL)
        /\ url = IF user = NULL THEN NULL ELSE [user |-> user, pwd |-> pwd]
        /\ \A r \in Requests \ {NULL} : r.page = made => r.url = url

\* After an answer about the categories no one is lost: each that has a name is
\* in a group, and in the last one only if nothing else, or its name, has it there.
EveryCategoryListed ==
    catalogue # NULL =>
        \A c \in catalogue : c.named =>
            /\ \E g \in Groups : c.id \in CidsByName(g)
            /\ c.id \in CidsByName(Other) =>
                  Other \in c.hits \/ \A g \in Groups \ {Other} : c.id \notin CidsByName(g)

\* A start takes the name of the last login, and the password of the last login
\* with "Autologin" ticked: a login without it keeps the older password in the
\* file, and a guest login keeps both, whatever happens in between.
StartsAsLastLogin ==
    [][StartUp => user' = kept.user /\ pwd' = kept.pwd]_vars

\* The window is shown only with its first page; that page comes, even if the
\* check of the file's credentials gets no answer.
PageComes == up /\ page = "none" ~> page # "none" \/ ~up
=============================================================================
