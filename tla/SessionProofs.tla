---------------------------- MODULE SessionProofs ---------------------------
(***************************************************************************)
(* Proofs about the session, for any users, passwords, categories, files    *)
(* and clicks: its types, that nobody is on a page of applications without  *)
(* a check or as a guest, that the account shown is the one requests are    *)
(* made as, that every group lists all its categories, and that the program *)
(* starts as the login before left the file.                                *)
(*                                                                          *)
(* None of these is inductive: the page changes when an answer comes, and   *)
(* what an answer does was decided when its request was made.  SessionInv   *)
(* adds what a request that is waiting says about the page it will find     *)
(* (Proper), and what the memory has of the configuration file (FileInv).   *)
(***************************************************************************)
EXTENDS Session, TLAPS

-----------------------------------------------------------------------------
(***************************************************************************)
(* Types, in parts: what is remembered, what is shown, what is asked.       *)
(***************************************************************************)

StoreType ==
    /\ file \in Pairs \cup {NULL, Unreadable} /\ keys \in Pairs \cup {NULL}
    /\ up \in BOOLEAN /\ edited \in BOOLEAN
    /\ user \in Names /\ pwd \in Secrets /\ url \in Url /\ kept \in Pairs
    /\ clicks \in 0 .. MaxClicks

LoginForms == [user : Entry(Users \cup {""}), pwd : Entry(Passwords \cup {""}),
               save : [selected : BOOLEAN]]

PageType ==
    /\ page \in {"none", "Login", "Register", "Frame", "InfoPage"}
    /\ made \in Nat /\ locked \in BOOLEAN
    /\ login \in LoginForms
    /\ regist \in [Fields -> Texts] /\ told \subseteq Fields
    /\ account \in [person : Names, offers : BOOLEAN, filled : BOOLEAN]

CategoryType ==
    /\ cids \in [Groups -> SUBSET Ids] /\ preloads \subseteq SUBSET Ids
    /\ catalogue \in Catalogues \cup {NULL}

WorkType == queue \in Seq(Request) /\ hand \in Request \cup {NULL}

\* The parts make up the whole.
LEMMA Parts == TypeOK <=> StoreType /\ PageType /\ CategoryType /\ WorkType
  BY DEF TypeOK, StoreType, PageType, CategoryType, WorkType, LoginForms

\* A value of the file is a name, or a password, that is not empty, or none.
LEMMA ValueTyped ==
    /\ \A x \in Names : GetValue(x) \in Users \cup {NULL}
    /\ \A x \in Secrets : GetValue(x) \in Passwords \cup {NULL}
  BY DEF GetValue, Names, Secrets

\* The address has the credentials it is made of, or none.
LEMMA AddressTyped ==
    ASSUME NEW k, NEW name \in Names, NEW secret \in Secrets
    PROVE  Address(k, name, secret) \in Url
  BY DEF Address, Url, Names, Secrets

\* What is saved is a pair.
LEMMA SavedTyped ==
    ASSUME NEW k \in Pairs, NEW name \in Names, NEW secret \in Secrets
    PROVE  Saved(k, name, secret) \in Pairs
  BY DEF Saved, Pairs

\* The texts of an entry are of its kind.
LEMMA EntryTyped ==
    ASSUME NEW S, "" \in S
    PROVE  /\ NewEntry \in Entry(S)
           /\ \A e \in Entry(S) : /\ FocusIn(e) \in Entry(S) /\ FocusIn(e).text = e.text
                                  /\ FocusOut(e) \in Entry(S) /\ FocusOut(e).text = e.text
                                  /\ \A t \in S : TextChanged(e, t) \in Entry(S)
  BY DEF Entry, NewEntry, FocusIn, FocusOut, TextChanged

\* A page without a form has the empty ones.
LEMMA EmptyTyped ==
    /\ NoForm \in LoginForms /\ NoTexts \in [Fields -> Texts]
    /\ NoAccount \in [person : Names, offers : BOOLEAN, filled : BOOLEAN]
<1>1. NewEntry \in Entry(Users \cup {""}) /\ NewEntry \in Entry(Passwords \cup {""})
  BY EntryTyped
<1>2. NoForm \in LoginForms
  BY <1>1 DEF NoForm, LoginForms, NewCheckBox
<1>3. NoTexts \in [Fields -> Texts]
  BY DEF NoTexts, Texts
<1> QED
  BY <1>2, <1>3 DEF NoAccount, Names

LEMMA LoginLoaded ==
    ASSUME PageType, NEW name \in Users \cup {NULL}, NEW secret \in Passwords \cup {NULL},
           LoadLogin(name, secret)
    PROVE  PageType' /\ page' = "Login" /\ made' = made + 1
<1>1. IF name = NULL THEN NewEntry \in Entry(Users \cup {""})
      ELSE TextChanged(NewEntry, name) \in Entry(Users \cup {""})
  BY EntryTyped
<1>2. IF secret = NULL THEN NewEntry \in Entry(Passwords \cup {""})
      ELSE TextChanged(NewEntry, secret) \in Entry(Passwords \cup {""})
  BY EntryTyped
<1>3. login' \in LoginForms
  BY <1>1, <1>2 DEF LoadLogin, LoginForms, NewCheckBox
<1>4. page' = "Login" /\ made' = made + 1 /\ locked' = FALSE /\ account' = NoAccount
  BY DEF LoadLogin, NewPage
<1>5. regist' = NoTexts /\ told' = {}
  BY DEF LoadLogin
<1>6. made' \in Nat
  BY <1>4 DEF PageType
<1> QED
  BY <1>3, <1>4, <1>5, <1>6, EmptyTyped DEF PageType

LEMMA OtherLoaded ==
    ASSUME PageType, NEW type \in {"Register", "InfoPage"}, LoadOther(type)
    PROVE  PageType' /\ page' = type /\ made' = made + 1
<1>1. page' = type /\ made' = made + 1 /\ locked' = FALSE /\ account' = NoAccount
  BY DEF LoadOther, NewPage
<1>2. login' = NoForm /\ regist' = NoTexts /\ told' = {}
  BY DEF LoadOther
<1>3. page' \in {"none", "Login", "Register", "Frame", "InfoPage"}
  BY <1>1
<1>4. made' \in Nat
  BY <1>1 DEF PageType
<1>5. login' \in LoginForms /\ regist' \in [Fields -> Texts] /\ told' \subseteq Fields
  BY <1>2, EmptyTyped
<1>6. account' \in [person : Names, offers : BOOLEAN, filled : BOOLEAN]
  BY <1>1, EmptyTyped
<1> QED
  BY <1>1, <1>3, <1>4, <1>5, <1>6 DEF PageType

-----------------------------------------------------------------------------
(***************************************************************************)
(* Categories.  A group holds what the answer lists in it, and nothing      *)
(* before there is an answer: setup_category is only ever called for the    *)
(* one answer the proxy has.                                                *)
(***************************************************************************)

IdsIn(list, g) == {c.id : c \in {d \in list : ListedIn(d, g)}}

CategoriesInv ==
    cids = [g \in Groups |-> IF catalogue = NULL THEN {} ELSE IdsIn(catalogue, g)]

LEMMA IdsTyped == ASSUME NEW list \in Catalogues, NEW g PROVE IdsIn(list, g) \in SUBSET Ids
  BY DEF IdsIn, Ids

LEMMA Categories ==
    ASSUME CategoryType, CategoriesInv, NEW list \in Catalogues,
           catalogue \in {NULL, list}, SetupCategory(list)
    PROVE  /\ cids' \in [Groups -> SUBSET Ids] /\ preloads' \subseteq SUBSET Ids
           /\ cids' = [g \in Groups |-> IdsIn(list, g)]
<1> DEFINE ids == [g \in Groups |-> IdsIn(list, g)]
<1>1. ids \in [Groups -> SUBSET Ids]
  BY IdsTyped
<1>2. /\ cids' = [g \in Groups |-> IF ids[g] # {} THEN ids[g] ELSE cids[g]]
      /\ preloads' = preloads \cup {s \in {ids[g] : g \in Groups} :
                                        s # {} /\ Key("preload", s) \notin stored}
  BY DEF SetupCategory, IdsIn
<1>3. preloads' \subseteq SUBSET Ids
  <2>1. {ids[g] : g \in Groups} \subseteq SUBSET Ids
    BY <1>1
  <2> QED
    BY <2>1, <1>2 DEF CategoryType
<1>4. ASSUME NEW g \in Groups PROVE cids[g] = {} \/ cids[g] = ids[g]
  BY GroupAssumption DEF CategoriesInv
<1>5. cids' = ids
  <2>1. \A g \in Groups : (IF ids[g] # {} THEN ids[g] ELSE cids[g]) = ids[g]
    BY <1>4
  <2> HIDE DEF ids
  <2>2. ids = [g \in Groups |-> ids[g]]
    BY <1>1
  <2> QED
    BY <1>2, <2>1, <2>2
<1> QED
  BY <1>1, <1>3, <1>5

-----------------------------------------------------------------------------
(***************************************************************************)
(* Requests.                                                                *)
(***************************************************************************)

\* The requests that wait or are in hand: each of type, and none that is new
\* but the one that is pushed.
LEMMA Pushed ==
    ASSUME WorkType, NEW task \in Request, queue' = Enqueued(queue, task), hand' = hand
    PROVE  /\ WorkType'
           /\ Requests' \subseteq Requests \cup {task}
           /\ keys = NULL => queue' = queue
<1>1. Enqueued(queue, task) \in Seq(Request)
  BY DEF Enqueued, WorkType
<1>2. CASE keys = NULL
  BY <1>2 DEF Enqueued, WorkType, Requests
<1>3. CASE keys # NULL
  <2>1. queue' = <<task>> \o queue
    BY <1>3 DEF Enqueued
  <2>2. \A i \in DOMAIN queue' : queue'[i] = task \/ \E j \in DOMAIN queue : queue'[i] = queue[j]
    BY <2>1 DEF WorkType
  <2> QED
    BY <1>1, <1>3, <2>2 DEF WorkType, Requests
<1> QED
  BY <1>2, <1>3

LEMMA EnqueuedAdds ==
    ASSUME NEW q \in Seq(Request), NEW task \in Request
    PROVE  /\ Enqueued(q, task) \in Seq(Request)
           /\ \A i \in DOMAIN Enqueued(q, task) :
                 \/ Enqueued(q, task)[i] = task
                 \/ \E j \in DOMAIN q : Enqueued(q, task)[i] = q[j]
<1>1. CASE keys = NULL
  BY <1>1 DEF Enqueued
<1>2. CASE keys # NULL
  BY <1>2 DEF Enqueued
<1> QED
  BY <1>1, <1>2

LEMMA AskedAdds ==
    ASSUME NEW q \in Seq(Request), NEW task \in Request
    PROVE  /\ Asked(q, task) \in Seq(Request)
           /\ \A i \in DOMAIN Asked(q, task) :
                 Asked(q, task)[i] = task \/ \E j \in DOMAIN q : Asked(q, task)[i] = q[j]
  BY EnqueuedAdds DEF Asked

Waiting == {queue[i] : i \in DOMAIN queue}

LEMMA MadeTyped == ASSUME PageType PROVE made \in Nat /\ made + 1 \in Nat
<1>1. made \in Nat
  BY DEF PageType
<1> QED
  BY <1>1

LEMMA Truth == \A x, y : (x = y) \in BOOLEAN /\ (x \in y) \in BOOLEAN
  OBVIOUS

\* What a frame for this user asks for.
FrameTask(r, name, creds) ==
    /\ r.kind \in {"person", "list", "categories"}
    /\ r.page = (IF r.kind = "categories" THEN Stage ELSE made + 1)
    /\ r.url = creds
    /\ r.kind = "person" => name # NULL

LEMMA FrameLoaded ==
    ASSUME PageType, CategoryType, CategoriesInv, WorkType, NEW name \in Names,
           NEW creds \in Url, LoadFrame(name, creds), hand' \in {hand, NULL},
           UNCHANGED catalogue
    PROVE  /\ PageType' /\ CategoryType' /\ CategoriesInv' /\ WorkType'
           /\ page' = "Frame" /\ made' = made + 1
           /\ account'.person = name /\ account'.offers = (name = NULL)
           /\ \A r \in Requests' : r \in Waiting \cup {hand'} \/ FrameTask(r, name, creds)
<1> DEFINE task(kind, arg) == NewTask(kind, made + 1, arg, creds)
           list == task("list", NULL)
           askPerson == task("person", name)
           askCategories == NewTask("categories", Stage, NULL, creds)
           person == IF name = NULL THEN queue ELSE Asked(queue, askPerson)
           categories == IF catalogue # NULL THEN person ELSE Enqueued(person, askCategories)
<1>0. made \in Nat /\ made + 1 \in Nat
  BY MadeTyped
<1>1. list \in Request /\ FrameTask(list, name, creds)
  BY <1>0 DEF NewTask, Request, FrameTask
<1>2. name # NULL => askPerson \in Request /\ FrameTask(askPerson, name, creds)
  BY <1>0 DEF NewTask, Request, FrameTask, Names
<1>3. askCategories \in Request /\ FrameTask(askCategories, name, creds)
  BY DEF NewTask, Request, FrameTask, Stage
<1>4. /\ page' = "Frame" /\ made' = made + 1 /\ queue' = Asked(categories, list)
      /\ login' = NoForm /\ regist' = NoTexts /\ told' = {}
  BY DEF LoadFrame
<1>a. account' = NewAccount(name) /\ locked' \in BOOLEAN
  BY DEF LoadFrame
<1>5. IF catalogue # NULL THEN SetupCategory(catalogue) ELSE UNCHANGED <<cids, preloads>>
  BY DEF LoadFrame
<1> HIDE DEF list, askPerson, askCategories
<1>6. /\ person \in Seq(Request)
      /\ \A i \in DOMAIN person : \/ name # NULL /\ person[i] = askPerson
                                  \/ \E j \in DOMAIN queue : person[i] = queue[j]
  BY <1>2, AskedAdds DEF WorkType
<1> HIDE DEF person
<1>7. /\ categories \in Seq(Request)
      /\ \A i \in DOMAIN categories : \/ categories[i] = askCategories
                                      \/ \E j \in DOMAIN person : categories[i] = person[j]
  BY <1>3, <1>6, EnqueuedAdds
<1> HIDE DEF categories
<1>8. /\ queue' \in Seq(Request)
      /\ \A i \in DOMAIN queue' : \/ queue'[i] = list
                                  \/ \E j \in DOMAIN categories : queue'[i] = categories[j]
  BY <1>1, <1>4, <1>7, AskedAdds
<1>9. ASSUME NEW r \in Requests' PROVE r \in Waiting \cup {hand'} \/ FrameTask(r, name, creds)
  <2>1. CASE r = hand'
    BY <2>1
  <2>2. ASSUME NEW i \in DOMAIN queue', r = queue'[i]
        PROVE  r \in Waiting \/ FrameTask(r, name, creds)
    <3>1. r = list \/ r = askCategories \/ (name # NULL /\ r = askPerson)
            \/ \E j \in DOMAIN queue : r = queue[j]
      <4>1. CASE r = list
        BY <4>1
      <4>2. ASSUME NEW j \in DOMAIN categories, r = categories[j]
            PROVE  r = askCategories \/ \E k \in DOMAIN person : r = person[k]
        BY <1>7, <4>2
      <4>3. ASSUME NEW k \in DOMAIN person, r = person[k]
            PROVE  (name # NULL /\ r = askPerson) \/ \E j \in DOMAIN queue : r = queue[j]
        BY <1>6, <4>3
      <4> QED
        BY <1>8, <2>2, <4>1, <4>2, <4>3
    <3> QED
      BY <1>1, <1>2, <1>3, <3>1 DEF Waiting
  <2> QED
    BY <2>1, <2>2 DEF Requests
<1>10. PageType'
  <2>1. made' \in Nat
    BY <1>0, <1>4
  <2>2. account' \in [person : Names, offers : BOOLEAN, filled : BOOLEAN]
    <3>1. (name = NULL) \in BOOLEAN /\ (Key("person", name) \in stored) \in BOOLEAN
      BY Truth
    <3> QED
      BY <1>a, <3>1 DEF NewAccount, Names
  <2> QED
    BY <1>4, <1>a, <2>1, <2>2, EmptyTyped DEF PageType
<1>11. CategoryType' /\ CategoriesInv'
  <2>1. CASE catalogue = NULL
    BY <1>5, <2>1 DEF CategoryType, CategoriesInv
  <2>2. CASE catalogue # NULL
    <3>1. catalogue \in Catalogues /\ SetupCategory(catalogue)
      BY <1>5, <2>2 DEF CategoryType
    <3>2. /\ cids' \in [Groups -> SUBSET Ids] /\ preloads' \subseteq SUBSET Ids
          /\ cids' = [g \in Groups |-> IdsIn(catalogue, g)]
      BY <3>1, Categories
    <3> QED
      BY <2>2, <3>1, <3>2 DEF CategoryType, CategoriesInv
  <2> QED
    BY <2>1, <2>2
<1>12. account'.person = name /\ account'.offers = (name = NULL)
  BY <1>a DEF NewAccount
<1>13. WorkType'
  BY <1>8 DEF WorkType
<1> QED
  BY <1>4, <1>9, <1>10, <1>11, <1>12, <1>13

-----------------------------------------------------------------------------
(***************************************************************************)
(* The inductive invariant.  A request tells what was so when it was made;  *)
(* what of it still holds when it is answered depends on the page that has  *)
(* come since, which its number tells from the one it was made for.         *)
(***************************************************************************)

TypesInv == StoreType /\ PageType /\ CategoryType /\ CategoriesInv /\ WorkType

\* The store's proxy is the store's user's.
UrlFits == url = IF user = NULL THEN NULL ELSE [user |-> user, pwd |-> pwd]

\* What a request that waits or is in hand means to the page and the store.
Proper(r) ==
    /\ r.page <= made
    /\ r.kind = "start" => /\ page = "none" /\ user # NULL /\ UrlFits
                           /\ r.arg = [user |-> user, pwd |-> pwd]
    /\ r.kind = "check" => /\ keys # NULL
                           /\ r.page = made => page = "Login" /\ (edited \/ r.arg = LoginAs)
    /\ r.kind = "person" /\ r.page = made => account.person # NULL
    /\ r.kind \in {"person", "check"} => r.page >= 1
    /\ page = "Frame" /\ r.page = made => r.url = url

RequestsInv == \A r \in Requests : r = NULL \/ Proper(r)

\* Before the first page there is one request at most; after the end, nothing.
QuietInv ==
    /\ page = "none" => queue = <<>> \/ (hand = NULL /\ \E r : queue = <<r>>)
    /\ ~up => page = "none" /\ queue = <<>> /\ hand = NULL /\ preloads = {}

PageInv ==
    /\ page # "none" => made >= 1
    /\ page = "Frame" => account.person = user /\ account.offers = (user = NULL)
    /\ page \in {"Frame", "InfoPage"} => UrlFits
    /\ Admitted

\* The program has in memory what the file has, and the history tells of both.
FileInv ==
    /\ up => file # NULL /\ keys = IF file = Unreadable THEN NULL ELSE file
    /\ kept = IF file \in {NULL, Unreadable} THEN NoPair
              ELSE [user |-> GetValue(file.user), pwd |-> GetValue(file.pwd)]

\* The proxy has no answer of a check.
StoredInv == \A k \in stored : k[1] \in {"person", "list", "preload"}

SessionInv == TypesInv /\ RequestsInv /\ QuietInv /\ PageInv /\ FileInv /\ StoredInv

\* The parts depend on no more than these variables.
LEMMA FileUntouched == ASSUME FileInv, UNCHANGED <<file, up, keys, kept>> PROVE FileInv'
  BY DEF FileInv

LEMMA PageUntouched ==
    ASSUME PageInv, UNCHANGED <<page, made, user, pwd, url, account, edited>>
    PROVE  PageInv'
  BY DEF PageInv, UrlFits, Admitted

LEMMA StoredUntouched == ASSUME StoredInv, UNCHANGED stored PROVE StoredInv'
  BY DEF StoredInv

LEMMA CategoriesUntouched ==
    ASSUME CategoryType, CategoriesInv, UNCHANGED <<cids, preloads, catalogue>>
    PROVE  CategoryType' /\ CategoriesInv'
  BY DEF CategoryType, CategoriesInv

LEMMA StoreUntouched ==
    ASSUME StoreType, UNCHANGED <<file, up, keys, user, pwd, url, kept, edited>>,
           clicks' = clicks \/ Clicks
    PROVE  StoreType'
<1>1. clicks' \in 0 .. MaxClicks
  <2>1. CASE clicks' = clicks
    BY <2>1 DEF StoreType
  <2>2. CASE Clicks
    <3>1. clicks \in Nat /\ clicks < MaxClicks /\ clicks' = clicks + 1
      BY <2>2 DEF StoreType, Clicks
    <3> QED
      BY <3>1, FormAssumption
  <2> QED
    BY <2>1, <2>2
<1> QED
  BY <1>1 DEF StoreType

\* A request means the same as long as the page, the store and the texts stay.
LEMMA ProperUntouched ==
    ASSUME NEW r, Proper(r), UNCHANGED <<page, made, user, pwd, url, keys, account>>,
           edited => edited',
           r.kind = "check" /\ r.page = made => edited' \/ LoginAs' = LoginAs
    PROVE  Proper(r)'
  BY DEF Proper, UrlFits

\* The page's number is new: no request of another page means this one.
LEMMA ProperLeft ==
    ASSUME NEW r \in Request, Proper(r), PageType, page # "none", made' = made + 1,
           keys # NULL => keys' # NULL
    PROVE  Proper(r)'
<1>1. made \in Nat /\ r.page \in Nat /\ r.page <= made
  BY MadeTyped DEF Request, Proper
<1>2. r.page <= made' /\ r.page # made'
  BY <1>1
<1>3. r.kind \in {"person", "check"} => r.page >= 1
  BY DEF Proper
<1> QED
  BY <1>2, <1>3 DEF Proper

LEMMA RequestTyped ==
    ASSUME WorkType, NEW r \in Requests PROVE r = NULL \/ r \in Request
<1>1. CASE r = hand
  BY <1>1 DEF WorkType
<1>2. ASSUME NEW i \in DOMAIN queue, r = queue[i] PROVE r \in Request
  BY <1>2 DEF WorkType
<1> QED
  BY <1>1, <1>2 DEF Requests

LEMMA RequestsLeft ==
    ASSUME RequestsInv, WorkType, PageType, page # "none", made' = made + 1,
           keys # NULL => keys' # NULL, Requests' \subseteq Requests \cup {NULL}
    PROVE  RequestsInv'
  BY RequestTyped, ProperLeft DEF RequestsInv

LEMMA RequestsSame == UNCHANGED <<queue, hand>> => Requests' = Requests
  BY DEF Requests

-----------------------------------------------------------------------------
(***************************************************************************)
(* Pages that are loaded.                                                   *)
(***************************************************************************)

\* A frame for the user of the store has requests that mean what they say.
LEMMA FrameKeeps ==
    ASSUME TypesInv, RequestsInv, NEW name \in Names, NEW creds \in Url,
           LoadFrame(name, creds), hand' \in {hand, NULL}, UNCHANGED catalogue,
           user' = name, url' = creds, UrlFits', keys # NULL => keys' # NULL,
           page # "none" \/ (queue = <<>> /\ hand' = NULL), page # "none" => made >= 1
    PROVE  /\ PageType' /\ CategoryType' /\ CategoriesInv' /\ WorkType' /\ RequestsInv'
           /\ page' = "Frame" /\ made' >= 1
           /\ account'.person = user' /\ account'.offers = (user' = NULL)
<1>1. /\ PageType' /\ CategoryType' /\ CategoriesInv' /\ WorkType'
      /\ page' = "Frame" /\ made' = made + 1
      /\ account'.person = name /\ account'.offers = (name = NULL)
      /\ \A r \in Requests' : r \in Waiting \cup {hand'} \/ FrameTask(r, name, creds)
  BY FrameLoaded DEF TypesInv
<1>2. made \in Nat /\ made' = made + 1
  BY <1>1, MadeTyped DEF TypesInv
<1>3. ASSUME NEW r, FrameTask(r, name, creds) PROVE Proper(r)'
  <2>1. r.page <= made' /\ (r.kind # "categories" => r.page >= 1)
    <3>1. (r.page = 0 /\ r.kind = "categories") \/ r.page = made + 1
      BY <1>3 DEF FrameTask, Stage
    <3> QED
      BY <1>2, <3>1
  <2>2. r.kind # "start" /\ r.kind # "check" /\ r.url = url'
    BY <1>3 DEF FrameTask
  <2>3. r.kind = "person" => account'.person # NULL /\ r.page >= 1
    BY <1>1, <1>3, <2>1 DEF FrameTask
  <2> QED
    BY <2>1, <2>2, <2>3 DEF Proper
<1>4. ASSUME NEW r \in Waiting \cup {hand'} PROVE r = NULL \/ Proper(r)'
  <2>1. CASE page # "none"
    <3>1. r = NULL \/ r \in Requests
      BY DEF Requests, Waiting
    <3>2. r = NULL \/ (r \in Request /\ Proper(r))
      BY <3>1, RequestTyped DEF RequestsInv, TypesInv
    <3> QED
      BY <1>1, <2>1, <3>2, ProperLeft DEF TypesInv
  <2>2. CASE queue = <<>> /\ hand' = NULL
    <3>1. DOMAIN queue = {}
      BY <2>2
    <3> QED
      BY <2>2, <3>1 DEF Waiting
  <2> QED
    BY <2>1, <2>2
<1>5. RequestsInv'
  BY <1>1, <1>3, <1>4 DEF RequestsInv
<1>6. made' >= 1
  BY <1>2
<1> QED
  BY <1>1, <1>5, <1>6

\* Any other page that takes the place of one, and leaves all requests alone.
LEMMA PageReplaced ==
    ASSUME SessionInv, page # "none", made' = made + 1, PageType',
           page' \in {"Login", "Register", "InfoPage"},
           page' = "InfoPage" => page = "Frame",
           UNCHANGED <<file, up, keys, user, pwd, url, kept, edited, stored, cids, preloads,
                       catalogue, queue, hand>>,
           clicks' = clicks \/ Clicks
    PROVE  SessionInv'
<1>1. TypesInv'
  <2>1. StoreType'
    BY StoreUntouched DEF SessionInv, TypesInv
  <2>2. CategoryType' /\ CategoriesInv'
    BY CategoriesUntouched DEF SessionInv, TypesInv
  <2>3. WorkType'
    BY DEF SessionInv, TypesInv, WorkType
  <2> QED
    BY <2>1, <2>2, <2>3 DEF TypesInv
<1>2. RequestsInv'
  <2>1. Requests' \subseteq Requests \cup {NULL}
    BY RequestsSame
  <2> QED
    BY <2>1, RequestsLeft DEF SessionInv, TypesInv
<1>3. QuietInv'
  BY DEF SessionInv, QuietInv
<1>4. PageInv'
  <2>1. made' >= 1
    BY MadeTyped DEF SessionInv, TypesInv
  <2>2. page' = "InfoPage" => UrlFits'
    BY DEF SessionInv, PageInv, UrlFits
  <2>3. Admitted'
    BY DEF SessionInv, PageInv, Admitted
  <2> QED
    BY <2>1, <2>2, <2>3 DEF PageInv
<1>5. FileInv' /\ StoredInv'
  BY FileUntouched, StoredUntouched DEF SessionInv
<1> QED
  BY <1>1, <1>2, <1>3, <1>4, <1>5 DEF SessionInv

\* on_register_press, on_back_button_press, on_account_login_press and
\* on_info_icon_event.
LEMMA WaysKeep ==
    ASSUME SessionInv,
           OnRegisterPress \/ OnBackButtonPress \/ OnAccountLoginPress \/ OnInfoIconEvent
    PROVE  SessionInv'
<1> USE DEF storeVars, proxyVars, workVars
<1>1. CASE OnRegisterPress
  <2>1. PageType' /\ page' = "Register" /\ made' = made + 1
    BY <1>1, OtherLoaded DEF OnRegisterPress, SessionInv, TypesInv
  <2> QED
    BY <1>1, <2>1, PageReplaced DEF OnRegisterPress
<1>2. CASE OnBackButtonPress
  <2>1. PageType' /\ page' = "Login" /\ made' = made + 1
    BY <1>2, LoginLoaded DEF OnBackButtonPress, SessionInv, TypesInv
  <2> QED
    BY <1>2, <2>1, PageReplaced DEF OnBackButtonPress
<1>3. CASE OnAccountLoginPress
  <2>1. CASE locked
    <3>1. TypesInv'
      <4>1. StoreType'
        BY <1>3, StoreUntouched DEF OnAccountLoginPress, SessionInv, TypesInv
      <4>2. PageType' /\ WorkType'
        BY <1>3, <2>1 DEF OnAccountLoginPress, SessionInv, TypesInv, PageType, WorkType, pageVars
      <4>3. CategoryType' /\ CategoriesInv'
        BY <1>3, CategoriesUntouched DEF OnAccountLoginPress, SessionInv, TypesInv
      <4> QED
        BY <4>1, <4>2, <4>3 DEF TypesInv
    <3>2. UNCHANGED <<page, made, account, login, user, pwd, url, keys, edited, queue, hand>>
      BY <1>3, <2>1 DEF OnAccountLoginPress, pageVars
    <3>3. RequestsInv'
      BY <3>2, ProperUntouched, RequestsSame DEF SessionInv, RequestsInv, LoginAs
    <3>4. QuietInv'
      BY <1>3, <3>2 DEF OnAccountLoginPress, SessionInv, QuietInv
    <3>5. PageInv' /\ FileInv' /\ StoredInv'
      BY <1>3, <3>2, PageUntouched, FileUntouched, StoredUntouched
         DEF OnAccountLoginPress, SessionInv
    <3> QED
      BY <3>1, <3>3, <3>4, <3>5 DEF SessionInv
  <2>2. CASE ~locked
    <3>1. PageType' /\ page' = "Login" /\ made' = made + 1
      BY <1>3, <2>2, LoginLoaded DEF OnAccountLoginPress, SessionInv, TypesInv
    <3> QED
      BY <1>3, <2>2, <3>1, PageReplaced DEF OnAccountLoginPress
  <2> QED
    BY <2>1, <2>2
<1>4. CASE OnInfoIconEvent
  <2>1. PageType' /\ page' = "InfoPage" /\ made' = made + 1
    BY <1>4, OtherLoaded DEF OnInfoIconEvent, SessionInv, TypesInv
  <2> QED
    BY <1>4, <2>1, PageReplaced DEF OnInfoIconEvent
<1> QED
  BY <1>1, <1>2, <1>3, <1>4

\* What leaves the page, the store and the proxy alone, but may push a request or
\* take one to hand, and may change a text as long as requests mean the same.
LEMMA RestKeeps ==
    ASSUME SessionInv, PageType', WorkType', QuietInv', preloads' \subseteq preloads,
           UNCHANGED <<file, up, keys, user, pwd, url, kept, page, made, account, stored,
                       cids, catalogue>>,
           edited' = edited \/ edited' = TRUE,
           clicks' = clicks \/ Clicks,
           \A r \in Requests' : \/ r = NULL \/ Proper(r)'
                                \/ r \in Requests /\ (Proper(r) => Proper(r)')
    PROVE  SessionInv'
<1>1. StoreType'
  <2>1. clicks' \in 0 .. MaxClicks
    <3>1. CASE clicks' = clicks
      BY <3>1 DEF SessionInv, TypesInv, StoreType
    <3>2. CASE Clicks
      <4>1. clicks \in Nat /\ clicks < MaxClicks /\ clicks' = clicks + 1
        BY <3>2 DEF SessionInv, TypesInv, StoreType, Clicks
      <4> QED
        BY <4>1, FormAssumption
    <3> QED
      BY <3>1, <3>2
  <2> QED
    BY <2>1 DEF SessionInv, TypesInv, StoreType
<1>2. CategoryType' /\ CategoriesInv'
  BY DEF SessionInv, TypesInv, CategoryType, CategoriesInv
<1>3. TypesInv'
  BY <1>1, <1>2 DEF TypesInv
<1>4. RequestsInv'
  BY DEF SessionInv, RequestsInv
<1>5. PageInv'
  <2>1. edited => edited'
    BY DEF SessionInv, TypesInv, StoreType
  <2> QED
    BY <2>1 DEF SessionInv, PageInv, UrlFits, Admitted
<1>6. FileInv' /\ StoredInv'
  BY FileUntouched, StoredUntouched DEF SessionInv
<1> QED
  BY <1>3, <1>4, <1>5, <1>6 DEF SessionInv

-----------------------------------------------------------------------------
(***************************************************************************)
(* What the user does in a page.                                            *)
(***************************************************************************)

\* A login that keeps its texts, and a text that is changed.
LEMMA FocusKeeps == ASSUME SessionInv, NEW e \in Entries, Focus(e) PROVE SessionInv'
<1> DEFINE other == CHOOSE f \in Entries : f # e
<1>1. other \in Entries /\ other # e
  <2>1. \E f \in Entries : f # e
    BY DEF Entries
  <2> QED
    BY <2>1
<1>2. login' = [login EXCEPT ![e] = FocusIn(@), ![other] = FocusOut(@)]
  BY DEF Focus
<1> HIDE DEF other
<1>3. login \in LoginForms
  BY DEF SessionInv, TypesInv, PageType
<1>4. e \in {"user", "pwd"} /\ other \in {"user", "pwd"}
  BY <1>1 DEF Entries
<1>5. /\ FocusIn(login.user) \in Entry(Users \cup {""})
      /\ FocusIn(login.user).text = login.user.text
      /\ FocusOut(login.user) \in Entry(Users \cup {""})
      /\ FocusOut(login.user).text = login.user.text
  BY <1>3, EntryTyped DEF LoginForms
<1>6. /\ FocusIn(login.pwd) \in Entry(Passwords \cup {""})
      /\ FocusIn(login.pwd).text = login.pwd.text
      /\ FocusOut(login.pwd) \in Entry(Passwords \cup {""})
      /\ FocusOut(login.pwd).text = login.pwd.text
  BY <1>3, EntryTyped DEF LoginForms
<1>7. /\ login' \in LoginForms
      /\ login'.user.text = login.user.text /\ login'.pwd.text = login.pwd.text
  <2>1. CASE e = "user"
    <3>1. other = "pwd"
      BY <1>1, <1>4, <2>1
    <3> QED
      BY <1>2, <1>3, <1>5, <1>6, <2>1, <3>1 DEF LoginForms
  <2>2. CASE e = "pwd"
    <3>1. other = "user"
      BY <1>1, <1>4, <2>2
    <3> QED
      BY <1>2, <1>3, <1>5, <1>6, <2>2, <3>1 DEF LoginForms
  <2> QED
    BY <1>4, <2>1, <2>2
<1>8. PageType'
  BY <1>7 DEF Focus, SessionInv, TypesInv, PageType
<1>9. UNCHANGED <<queue, hand, preloads>> /\ UNCHANGED <<user, pwd, url>>
      /\ UNCHANGED <<stored, cids, catalogue>>
  BY DEF Focus, workVars, storeVars, proxyVars
<1>10. WorkType' /\ QuietInv'
  BY <1>9 DEF Focus, SessionInv, TypesInv, WorkType, QuietInv
<1>11. UNCHANGED LoginAs
  BY <1>7 DEF LoginAs
<1>12. \A r \in Requests' : r \in Requests /\ (Proper(r) => Proper(r)')
  BY <1>9, <1>11, RequestsSame, ProperUntouched DEF Focus
<1> QED
  BY <1>8, <1>9, <1>10, <1>12, RestKeeps DEF Focus

LEMMA TypeKeeps ==
    ASSUME SessionInv, NEW e \in Entries, NEW text \in Choices(e), Type(e, text)
    PROVE  SessionInv'
<1>1. login' = [login EXCEPT ![e] = TextChanged(@, text)]
  BY DEF Type
<1>2. login \in LoginForms
  BY DEF SessionInv, TypesInv, PageType
<1>3. login' \in LoginForms
  <2>1. CASE e = "user"
    <3>1. TextChanged(login.user, text) \in Entry(Users \cup {""})
      BY <1>2, <2>1, EntryTyped DEF LoginForms, Choices
    <3> QED
      BY <1>1, <1>2, <2>1, <3>1 DEF LoginForms
  <2>2. CASE e = "pwd"
    <3>1. TextChanged(login.pwd, text) \in Entry(Passwords \cup {""})
      BY <1>2, <2>2, EntryTyped DEF LoginForms, Choices
    <3> QED
      BY <1>1, <1>2, <2>2, <3>1 DEF LoginForms
  <2> QED
    BY <2>1, <2>2 DEF Entries
<1>4. PageType'
  BY <1>3 DEF Type, SessionInv, TypesInv, PageType
<1>5. UNCHANGED <<queue, hand, preloads>> /\ UNCHANGED <<user, pwd, url>>
      /\ UNCHANGED <<stored, cids, catalogue>>
  BY DEF Type, workVars, storeVars, proxyVars
<1>6. WorkType' /\ QuietInv'
  BY <1>5 DEF Type, SessionInv, TypesInv, WorkType, QuietInv
<1>7. edited' = (edited \/ CheckPending) /\ edited \in BOOLEAN
  BY DEF Type, SessionInv, TypesInv, StoreType
<1>8. ASSUME NEW r \in Requests', r # NULL PROVE r \in Requests /\ (Proper(r) => Proper(r)')
  <2>1. r \in Requests
    BY <1>5, RequestsSame
  <2>2. r.kind = "check" /\ r.page = made => edited'
    BY <1>7, <1>8, <2>1 DEF CheckPending
  <2> QED
    BY <1>5, <1>7, <2>1, <2>2, ProperUntouched DEF Type
<1>9. edited' = edited \/ edited' = TRUE
  BY <1>7 DEF CheckPending
<1> QED
  BY <1>4, <1>5, <1>6, <1>8, <1>9, RestKeeps DEF Type

LEMMA AutologinKeeps == ASSUME SessionInv, PressAutologin PROVE SessionInv'
<1>1. login \in LoginForms /\ login' = [login EXCEPT !.save = PressCheckBox(@)]
  BY DEF PressAutologin, SessionInv, TypesInv, PageType
<1>2. login' \in LoginForms /\ UNCHANGED LoginAs
  BY <1>1 DEF PressCheckBox, LoginForms, LoginAs
<1>3. PageType'
  BY <1>2 DEF PressAutologin, SessionInv, TypesInv, PageType
<1>4. UNCHANGED <<queue, hand, preloads>> /\ UNCHANGED <<user, pwd, url>>
      /\ UNCHANGED <<stored, cids, catalogue>>
  BY DEF PressAutologin, workVars, storeVars, proxyVars
<1>5. WorkType' /\ QuietInv'
  BY <1>4 DEF PressAutologin, SessionInv, TypesInv, WorkType, QuietInv
<1>6. \A r \in Requests' : r \in Requests /\ (Proper(r) => Proper(r)')
  BY <1>2, <1>4, RequestsSame, ProperUntouched DEF PressAutologin
<1> QED
  BY <1>3, <1>4, <1>5, <1>6, RestKeeps DEF PressAutologin

LEMMA FillKeeps == ASSUME SessionInv, NEW form \in Forms, Fill(form) PROVE SessionInv'
<1>1. PageType'
  BY FormAssumption DEF Fill, SessionInv, TypesInv, PageType
<1>2. UNCHANGED <<queue, hand, preloads>> /\ UNCHANGED <<user, pwd, url>>
      /\ UNCHANGED <<stored, cids, catalogue>> /\ UNCHANGED LoginAs
  BY DEF Fill, workVars, storeVars, proxyVars, LoginAs
<1>3. WorkType' /\ QuietInv'
  BY <1>2 DEF Fill, SessionInv, TypesInv, WorkType, QuietInv
<1>4. \A r \in Requests' : r \in Requests /\ (Proper(r) => Proper(r)')
  BY <1>2, RequestsSame, ProperUntouched DEF Fill
<1> QED
  BY <1>1, <1>2, <1>3, <1>4, RestKeeps DEF Fill

\* A request that is pushed for a page that is there.
LEMMA PushKeeps ==
    ASSUME SessionInv, NEW task \in Request, PageType', page \in {"Login", "Register"},
           queue' = Enqueued(queue, task), UNCHANGED <<hand, preloads>>,
           UNCHANGED <<file, up, keys, user, pwd, url, kept, page, made, account, stored,
                       cids, catalogue>>,
           UNCHANGED <<edited, login>>, Clicks, keys # NULL => Proper(task)
    PROVE  SessionInv'
<1>1. /\ WorkType' /\ Requests' \subseteq Requests \cup {task}
      /\ keys = NULL => queue' = queue
  BY Pushed DEF SessionInv, TypesInv
<1>2. QuietInv'
  BY DEF SessionInv, QuietInv
<1>3. ASSUME NEW r, Proper(r) PROVE Proper(r)'
  BY <1>3, ProperUntouched DEF LoginAs
<1>4. \A r \in Requests' : \/ r = NULL \/ Proper(r)'
                           \/ r \in Requests /\ (Proper(r) => Proper(r)')
  <2>1. CASE keys = NULL
    <3>1. Requests' = Requests
      BY <1>1, <2>1, RequestsSame
    <3> QED
      BY <1>3, <3>1
  <2>2. CASE keys # NULL
    BY <1>1, <1>3, <2>2
  <2> QED
    BY <2>1, <2>2
<1> QED
  BY <1>1, <1>2, <1>4, RestKeeps

LEMMA LoginPressKeeps == ASSUME SessionInv, OnLoginPress PROVE SessionInv'
<1> DEFINE task == NewTask("check", made, [user |-> login.user.text, pwd |-> login.pwd.text], url)
<1>1. made \in Nat /\ login \in LoginForms /\ url \in Url
  BY MadeTyped DEF SessionInv, TypesInv, PageType, StoreType
<1>2. login.user.text \in Users /\ login.pwd.text \in Passwords
  BY <1>1 DEF OnLoginPress, LoginForms, Entry
<1>3. task \in Request
  BY <1>1, <1>2 DEF NewTask, Request, Checks
<1>4. task.page <= made /\ task.page >= 1
  <2>1. page = "Login"
    BY DEF OnLoginPress
  <2>2. made >= 1
    BY <2>1 DEF SessionInv, PageInv
  <2> QED
    BY <1>1, <2>2 DEF NewTask
<1>5. /\ page = "Login" /\ Clicks /\ queue' = Enqueued(queue, task)
      /\ UNCHANGED <<hand, preloads>> /\ UNCHANGED <<file, up, keys, user, pwd, url, kept>>
      /\ UNCHANGED <<page, made, account, stored, cids, catalogue>>
      /\ UNCHANGED <<edited, login>>
  BY DEF OnLoginPress, storeVars, pageVars, proxyVars
<1>6. keys # NULL => Proper(task)
  BY <1>4, <1>5 DEF Proper, NewTask, LoginAs
<1>7. PageType'
  BY <1>5 DEF OnLoginPress, pageVars, SessionInv, TypesInv, PageType
<1> HIDE DEF task
<1> QED
  BY <1>3, <1>5, <1>6, <1>7, PushKeeps

LEMMA RegisterPressKeeps == ASSUME SessionInv, OnRegisterButtonPress PROVE SessionInv'
<1> DEFINE task == NewTask("add", made, NULL, url)
<1>1. made \in Nat /\ url \in Url
  BY MadeTyped DEF SessionInv, TypesInv, StoreType
<1>2. task \in Request
  BY <1>1 DEF NewTask, Request
<1>3. task.page <= made
  BY <1>1 DEF NewTask
<1>4. /\ page = "Register" /\ Clicks
      /\ queue' = Enqueued(queue, task) \/ queue' = queue
      /\ UNCHANGED <<hand, preloads>> /\ UNCHANGED <<file, up, keys, user, pwd, url, kept>>
      /\ UNCHANGED <<page, made, account, stored, cids, catalogue>>
      /\ UNCHANGED <<edited, login>>
  BY DEF OnRegisterButtonPress, storeVars, proxyVars
<1>5. Proper(task)
  BY <1>3, <1>4 DEF Proper, NewTask
<1>6. PageType'
  BY DEF OnRegisterButtonPress, SessionInv, TypesInv, PageType
<1> HIDE DEF task
<1>7. CASE queue' = Enqueued(queue, task)
  BY <1>2, <1>4, <1>5, <1>6, <1>7, PushKeeps
<1>8. CASE queue' = queue
  <2>1. WorkType' /\ QuietInv'
    BY <1>4, <1>8 DEF SessionInv, TypesInv, WorkType, QuietInv
  <2>2. \A r \in Requests' : r \in Requests /\ (Proper(r) => Proper(r)')
    BY <1>4, <1>8, RequestsSame, ProperUntouched DEF LoginAs
  <2> QED
    BY <1>4, <1>6, <2>1, <2>2, RestKeeps
<1> QED
  BY <1>4, <1>7, <1>8

\* A frame that takes the place of a page.
LEMMA GuestKeeps == ASSUME SessionInv, OnGuestLoginPress PROVE SessionInv'
<1>1. user' = NULL /\ pwd' = NULL /\ url' = NULL /\ edited' = FALSE
  BY DEF OnGuestLoginPress, Address
<1>2. /\ page = "Login" /\ Clicks /\ LoadFrame(NULL, NULL)
      /\ UNCHANGED <<file, up, keys, stored, catalogue, hand, kept>>
  BY DEF OnGuestLoginPress
<1>3. NULL \in Names /\ NULL \in Url /\ NULL \in Secrets
  BY DEF Names, Url, Secrets
<1>4. UrlFits'
  BY <1>1 DEF UrlFits
<1>5. /\ PageType' /\ CategoryType' /\ CategoriesInv' /\ WorkType' /\ RequestsInv'
      /\ page' = "Frame" /\ made' >= 1
      /\ account'.person = user' /\ account'.offers = (user' = NULL)
  BY <1>1, <1>2, <1>3, <1>4, FrameKeeps DEF SessionInv, PageInv
<1>6. StoreType'
  <2>1. clicks' \in 0 .. MaxClicks
    <3>1. clicks \in Nat /\ clicks < MaxClicks /\ clicks' = clicks + 1
      BY <1>2 DEF SessionInv, TypesInv, StoreType, Clicks
    <3> QED
      BY <3>1, FormAssumption
  <2> QED
    BY <1>1, <1>2, <1>3, <2>1 DEF SessionInv, TypesInv, StoreType
<1>7. QuietInv'
  BY <1>2, <1>5 DEF SessionInv, QuietInv
<1>8. PageInv'
  BY <1>1, <1>4, <1>5 DEF PageInv, Admitted
<1>9. FileInv' /\ StoredInv'
  BY <1>2, FileUntouched, StoredUntouched DEF SessionInv
<1> QED
  BY <1>5, <1>6, <1>7, <1>8, <1>9 DEF SessionInv, TypesInv

LEMMA ReturnKeeps == ASSUME SessionInv, OnReturnPress PROVE SessionInv'
<1>1. /\ page = "InfoPage" /\ Clicks /\ LoadFrame(user, url)
      /\ UNCHANGED <<file, up, keys, user, pwd, url, stored, catalogue, hand, edited, kept>>
  BY DEF OnReturnPress, storeVars
<1>2. user \in Names /\ url \in Url
  BY DEF SessionInv, TypesInv, StoreType
<1>3. UrlFits'
  BY <1>1 DEF SessionInv, PageInv, UrlFits
<1>4. /\ PageType' /\ CategoryType' /\ CategoriesInv' /\ WorkType' /\ RequestsInv'
      /\ page' = "Frame" /\ made' >= 1
      /\ account'.person = user' /\ account'.offers = (user' = NULL)
  BY <1>1, <1>2, <1>3, FrameKeeps DEF SessionInv, PageInv
<1>5. StoreType'
  BY <1>1, StoreUntouched DEF SessionInv, TypesInv
<1>6. QuietInv'
  BY <1>1, <1>4 DEF SessionInv, QuietInv
<1>7. PageInv'
  BY <1>1, <1>3, <1>4 DEF SessionInv, PageInv, Admitted
<1>8. FileInv' /\ StoredInv'
  BY <1>1, FileUntouched, StoredUntouched DEF SessionInv
<1> QED
  BY <1>4, <1>5, <1>6, <1>7, <1>8 DEF SessionInv, TypesInv

-----------------------------------------------------------------------------
(***************************************************************************)
(* The program starts and ends.                                             *)
(***************************************************************************)

\* After the end there is the file, and the history.
LEMMA EndKeeps == ASSUME SessionInv, End PROVE SessionInv'
<1>1. /\ up' = FALSE /\ keys' = NULL /\ user' = NULL /\ pwd' = NULL /\ url' = NULL
      /\ cids' = [g \in Groups |-> {}] /\ catalogue' = NULL /\ stored' = {}
      /\ page' = "none" /\ made' = 0 /\ locked' = FALSE /\ account' = NoAccount
      /\ login' = NoForm /\ regist' = NoTexts /\ told' = {}
      /\ queue' = <<>> /\ preloads' = {} /\ hand' = NULL /\ edited' = FALSE
      /\ UNCHANGED <<file, clicks, kept>>
  BY DEF End, Blank
<1>2. NULL \in Names /\ NULL \in Url /\ NULL \in Secrets
  BY DEF Names, Url, Secrets
<1>3. StoreType'
  BY <1>1, <1>2 DEF SessionInv, TypesInv, StoreType
<1>4. PageType'
  <2>1. made' \in Nat
    BY <1>1
  <2> QED
    BY <1>1, <2>1, EmptyTyped DEF PageType
<1>5. CategoryType' /\ CategoriesInv'
  BY <1>1 DEF CategoryType, CategoriesInv
<1>6. WorkType'
  BY <1>1 DEF WorkType
<1>7. RequestsInv'
  <2>1. DOMAIN queue' = {}
    BY <1>1
  <2> QED
    BY <1>1, <2>1 DEF RequestsInv, Requests
<1>8. QuietInv' /\ PageInv' /\ StoredInv'
  BY <1>1 DEF QuietInv, PageInv, Admitted, StoredInv
<1>9. FileInv'
  BY <1>1 DEF SessionInv, FileInv
<1> QED
  BY <1>3, <1>4, <1>5, <1>6, <1>7, <1>8, <1>9 DEF SessionInv, TypesInv

\* What a start makes of the file, in parts.
StartsWith(k) ==
    /\ file' = (IF file = NULL THEN NoPair ELSE file)
    /\ keys' = IF file = Unreadable THEN NULL ELSE k
    /\ user' = GetValue(k.user) /\ pwd' = GetValue(k.pwd)
    /\ url' = Address(keys', user', pwd')

LEMMA FileRead ==
    ASSUME SessionInv, StartsWith(IF file = Unreadable THEN NoPair ELSE file'), up' = TRUE,
           kept' = kept
    PROVE  /\ FileInv' /\ keys' \in Pairs \cup {NULL} /\ file' \in Pairs \cup {NULL, Unreadable}
           /\ user' \in Users \cup {NULL} /\ pwd' \in Passwords \cup {NULL} /\ url' \in Url
           /\ user' = kept.user /\ pwd' = kept.pwd
           /\ user' # NULL /\ pwd' # NULL =>
                 /\ url' = [user |-> user', pwd |-> pwd']
                 /\ (IF file = Unreadable THEN NoPair ELSE file') = [user |-> user', pwd |-> pwd']
<1> DEFINE k == IF file = Unreadable THEN NoPair ELSE file'
<1>1. /\ file' = (IF file = NULL THEN NoPair ELSE file)
      /\ keys' = IF file = Unreadable THEN NULL ELSE k
      /\ user' = GetValue(k.user) /\ pwd' = GetValue(k.pwd)
      /\ url' = Address(keys', user', pwd')
  BY DEF StartsWith
<1>2. NoPair \in Pairs /\ NoPair.user = NULL /\ NoPair.pwd = NULL /\ GetValue(NULL) = NULL
  BY DEF NoPair, Pairs, Names, Secrets, GetValue
<1>3. file \in Pairs \cup {NULL, Unreadable} /\ NULL # Unreadable
      /\ NULL \notin Pairs /\ Unreadable \notin Pairs
  BY NullAssumption DEF SessionInv, TypesInv, StoreType
<1>4. k \in Pairs
  BY <1>1, <1>2, <1>3
<1>5. k.user \in Names /\ k.pwd \in Secrets /\ k = [user |-> k.user, pwd |-> k.pwd]
  BY <1>4 DEF Pairs
<1>6. user' \in Users \cup {NULL} /\ pwd' \in Passwords \cup {NULL}
  BY <1>1, <1>5, ValueTyped
<1>7. user' \in Names /\ pwd' \in Secrets
  BY <1>6 DEF Names, Secrets
<1>8. url' \in Url
  BY <1>1, <1>7, AddressTyped
<1>9. user' = kept.user /\ pwd' = kept.pwd
  <2>1. CASE file \in {NULL, Unreadable}
    <3>1. k = NoPair
      BY <1>1, <1>3, <2>1
    <3> QED
      BY <1>1, <1>2, <2>1, <3>1 DEF SessionInv, FileInv
  <2>2. CASE file \notin {NULL, Unreadable}
    <3>1. k = file
      BY <1>1, <2>2
    <3> QED
      BY <1>1, <2>2, <3>1 DEF SessionInv, FileInv
  <2> QED
    BY <2>1, <2>2
<1>10. FileInv'
  <2>1. file' # NULL
    BY <1>1, <1>2, <1>3
  <2>2. file' = Unreadable <=> file = Unreadable
    BY <1>1, <1>2, <1>3
  <2>3. keys' = IF file' = Unreadable THEN NULL ELSE file'
    BY <1>1, <2>2
  <2>4. kept' = IF file' \in {NULL, Unreadable} THEN NoPair
                ELSE [user |-> GetValue(file'.user), pwd |-> GetValue(file'.pwd)]
    <3>1. CASE file = NULL
      BY <1>1, <1>2, <1>3, <3>1 DEF SessionInv, FileInv, NoPair
    <3>2. CASE file # NULL
      BY <1>1, <3>2 DEF SessionInv, FileInv
    <3> QED
      BY <3>1, <3>2
  <2> QED
    BY <2>1, <2>3, <2>4 DEF FileInv
<1>11. ASSUME user' # NULL, pwd' # NULL
       PROVE  url' = [user |-> user', pwd |-> pwd'] /\ k = [user |-> user', pwd |-> pwd']
  <2>1. file # Unreadable
    BY <1>1, <1>2, <1>11
  <2>2. keys' # NULL
    BY <1>1, <1>3, <1>4, <2>1
  <2>3. user' = k.user /\ pwd' = k.pwd
    BY <1>1, <1>11 DEF GetValue
  <2> QED
    BY <1>1, <1>5, <1>11, <2>2, <2>3 DEF Address
<1> QED
  BY <1>1, <1>3, <1>4, <1>6, <1>8, <1>9, <1>10, <1>11

LEMMA StartKeeps ==
    ASSUME SessionInv, StartUp
    PROVE  SessionInv' /\ user' = kept.user /\ pwd' = kept.pwd
<1> DEFINE k == IF file = Unreadable THEN NoPair ELSE file'
<1>1. /\ ~up /\ Clicks /\ up' = TRUE /\ UNCHANGED <<stored, catalogue, cids, preloads>>
      /\ UNCHANGED <<hand, edited, kept>> /\ StartsWith(k)
  BY DEF StartUp, proxyVars, StartsWith
<1>2. /\ page = "none" /\ queue = <<>> /\ hand = NULL /\ preloads = {}
  BY <1>1 DEF SessionInv, QuietInv
<1>3. /\ FileInv' /\ keys' \in Pairs \cup {NULL} /\ file' \in Pairs \cup {NULL, Unreadable}
      /\ user' \in Users \cup {NULL} /\ pwd' \in Passwords \cup {NULL} /\ url' \in Url
      /\ user' = kept.user /\ pwd' = kept.pwd
      /\ user' # NULL /\ pwd' # NULL => /\ url' = [user |-> user', pwd |-> pwd']
                                        /\ k = [user |-> user', pwd |-> pwd']
  BY <1>1, FileRead
<1>4. user' = GetValue(k.user) /\ pwd' = GetValue(k.pwd)
  BY <1>1 DEF StartsWith
<1>5. IF AuthValid(k)
      THEN /\ queue' = <<NewTask("start", Stage, k, url')>>
           /\ UNCHANGED <<page, made, login, regist, told, account, locked>>
      ELSE LoadLogin(user', pwd') /\ UNCHANGED queue
  BY <1>4 DEF StartUp, pageVars
<1> HIDE DEF k
<1>6. StoreType'
  <2>1. clicks' \in 0 .. MaxClicks
    <3>1. clicks \in Nat /\ clicks < MaxClicks /\ clicks' = clicks + 1
      BY <1>1 DEF SessionInv, TypesInv, StoreType, Clicks
    <3> QED
      BY <3>1, FormAssumption
  <2>2. user' \in Names /\ pwd' \in Secrets
    BY <1>3 DEF Names, Secrets
  <2> QED
    BY <1>1, <1>3, <2>1, <2>2 DEF SessionInv, TypesInv, StoreType
<1>7. CategoryType' /\ CategoriesInv' /\ StoredInv'
  BY <1>1, CategoriesUntouched, StoredUntouched DEF SessionInv, TypesInv
<1>8. CASE AuthValid(k)
  <2> DEFINE task == NewTask("start", Stage, k, url')
  <2>1. user' # NULL /\ pwd' # NULL
    BY <1>4, <1>8 DEF AuthValid
  <2>2. task \in Request
    BY <1>3, <2>1 DEF NewTask, Request, Checks, Stage
  <2>3. UrlFits'
    BY <1>3, <2>1 DEF UrlFits
  <2>4. made \in Nat /\ made' = made /\ page' = page
    BY <1>5, <1>8, MadeTyped DEF SessionInv, TypesInv
  <2>5. task.page <= made'
    BY <2>4 DEF NewTask, Stage
  <2>6. ASSUME NEW r, r = task PROVE Proper(r)'
    <3>1. r.kind = "start" /\ r.arg = [user |-> user', pwd |-> pwd'] /\ r.page <= made'
      BY <1>3, <2>1, <2>5, <2>6 DEF NewTask
    <3> QED
      BY <1>2, <2>1, <2>3, <2>4, <3>1 DEF Proper
  <2>7. queue' = <<task>> /\ hand' = NULL
    BY <1>1, <1>2, <1>5, <1>8
  <2> HIDE DEF task
  <2>8. WorkType'
    BY <2>2, <2>7 DEF WorkType
  <2>9. \A r \in Requests' : r = NULL \/ r = task
    BY <2>7 DEF Requests
  <2>10. RequestsInv'
    BY <2>6, <2>9 DEF RequestsInv
  <2>11. PageType'
    BY <1>5, <1>8 DEF SessionInv, TypesInv, PageType
  <2>12. QuietInv' /\ PageInv'
    BY <1>1, <1>2, <2>4, <2>7 DEF QuietInv, PageInv, Admitted
  <2> QED
    BY <1>3, <1>6, <1>7, <2>8, <2>10, <2>11, <2>12 DEF SessionInv, TypesInv
<1>9. CASE ~AuthValid(k)
  <2>1. PageType' /\ page' = "Login" /\ made' = made + 1
    BY <1>3, <1>5, <1>9, LoginLoaded DEF SessionInv, TypesInv
  <2>2. queue' = <<>> /\ hand' = NULL
    BY <1>1, <1>2, <1>5, <1>9
  <2>3. WorkType'
    BY <2>2 DEF WorkType
  <2>4. RequestsInv'
    <3>1. DOMAIN queue' = {}
      BY <2>2
    <3> QED
      BY <2>2, <3>1 DEF RequestsInv, Requests
  <2>5. made' >= 1
    BY <2>1, MadeTyped DEF SessionInv, TypesInv
  <2>6. QuietInv' /\ PageInv'
    BY <1>1, <2>1, <2>2, <2>5 DEF QuietInv, PageInv, Admitted
  <2> QED
    BY <1>3, <1>6, <1>7, <2>1, <2>3, <2>4, <2>6 DEF SessionInv, TypesInv
<1> QED
  BY <1>3, <1>8, <1>9

-----------------------------------------------------------------------------
(***************************************************************************)
(* The worker.                                                              *)
(***************************************************************************)

LEMMA TakesKeeps == ASSUME SessionInv, WorkerTakes PROVE SessionInv'
<1>1. /\ hand = NULL
      /\ UNCHANGED <<file, up, keys, clicks, edited, kept>> /\ UNCHANGED <<user, pwd, url>>
      /\ UNCHANGED <<page, made, login, regist, told, account, locked>>
      /\ UNCHANGED <<stored, catalogue, cids>>
  BY DEF WorkerTakes, storeVars, pageVars, proxyVars
<1>2. queue \in Seq(Request) /\ preloads \subseteq SUBSET Ids
  BY DEF SessionInv, TypesInv, WorkType, CategoryType
<1>3. PageType'
  BY <1>1 DEF SessionInv, TypesInv, PageType
<1>4. ASSUME NEW r, Proper(r) PROVE Proper(r)'
  BY <1>1, <1>4, ProperUntouched DEF LoginAs
<1>5. CASE queue # <<>> /\ hand' = Head(queue) /\ queue' = Tail(queue) /\ UNCHANGED preloads
  <2>1. /\ hand' \in Request /\ queue' \in Seq(Request)
        /\ \E i \in DOMAIN queue : hand' = queue[i]
        /\ \A i \in DOMAIN queue' : \E j \in DOMAIN queue : queue'[i] = queue[j]
    <3>1. /\ hand' = queue[1] /\ 1 \in DOMAIN queue
          /\ \A i \in DOMAIN queue' : i + 1 \in DOMAIN queue /\ queue'[i] = queue[i + 1]
      BY <1>2, <1>5
    <3> QED
      BY <1>2, <1>5, <3>1
  <2>2. WorkType'
    BY <2>1 DEF WorkType
  <2>3. Requests' \subseteq Requests
    BY <2>1 DEF Requests
  <2>4. QuietInv'
    <3>1. ASSUME page = "none" PROVE queue' = <<>>
      <4>1. PICK r : queue = <<r>>
        BY <1>5, <3>1 DEF SessionInv, QuietInv
      <4> QED
        BY <1>5, <4>1
    <3>2. up
      BY <1>5 DEF SessionInv, QuietInv
    <3> QED
      BY <1>1, <3>1, <3>2 DEF QuietInv
  <2> QED
    BY <1>1, <1>3, <1>4, <1>5, <2>2, <2>3, <2>4, RestKeeps
<1>6. ASSUME queue = <<>>, queue' = queue, NEW s \in preloads,
             hand' = NewTask("preload", Stage, s, NULL), preloads' = preloads \ {s}
      PROVE  SessionInv'
  <2> DEFINE task == NewTask("preload", Stage, s, NULL)
  <2>1. task \in Request
    <3>1. s \in SUBSET Ids /\ NULL \in Url
      BY <1>2 DEF Url
    <3> QED
      BY <3>1 DEF NewTask, Request, Stage
  <2>2. task.page = 0 /\ task.kind = "preload" /\ task.url = NULL
    BY DEF NewTask, Stage
  <2> HIDE DEF task
  <2>3. WorkType'
    BY <1>2, <1>6, <2>1 DEF WorkType, task
  <2>4. up
    BY <1>6 DEF SessionInv, QuietInv
  <2>5. QuietInv'
    BY <1>1, <1>6, <2>4 DEF QuietInv
  <2>6. made \in Nat /\ (page # "none" => made >= 1)
    BY MadeTyped DEF SessionInv, TypesInv, PageInv
  <2>7. page = "Frame" => task.page # made
    BY <2>2, <2>6
  <2>8. task.page <= made
    BY <2>2, <2>6
  <2>9. Proper(task)
    BY <2>2, <2>7, <2>8 DEF Proper
  <2>10. \A r \in Requests' : r = task
    <3>1. DOMAIN queue' = {}
      BY <1>6
    <3> QED
      BY <1>6, <3>1 DEF Requests, task
  <2> QED
    BY <1>1, <1>3, <1>4, <1>6, <2>3, <2>5, <2>9, <2>10, RestKeeps
<1> QED
  BY <1>5, <1>6 DEF WorkerTakes

\* An answer that ends in the page, the account or the proxy.
LEMMA DoneKeeps ==
    ASSUME SessionInv, hand # NULL, hand' = NULL, UNCHANGED <<queue, preloads>>, PageType',
           UNCHANGED <<file, up, keys, user, pwd, url, kept, page, made, clicks, edited>>,
           UNCHANGED <<cids, catalogue, login>>, StoredInv',
           account'.person = account.person,
           page = "Frame" => account'.offers = (user = NULL)
    PROVE  SessionInv'
<1>1. StoreType'
  BY DEF SessionInv, TypesInv, StoreType
<1>2. CategoryType' /\ CategoriesInv'
  BY CategoriesUntouched DEF SessionInv, TypesInv
<1>3. WorkType'
  BY DEF SessionInv, TypesInv, WorkType
<1>4. Requests' \subseteq Requests \cup {NULL}
  BY DEF Requests
<1>5. ASSUME NEW r, Proper(r) PROVE Proper(r)'
  BY <1>5 DEF Proper, UrlFits, LoginAs
<1>6. RequestsInv'
  BY <1>4, <1>5 DEF SessionInv, RequestsInv
<1>7. QuietInv'
  BY DEF SessionInv, QuietInv
<1>8. PageInv'
  BY DEF SessionInv, PageInv, UrlFits, Admitted
<1>9. FileInv'
  BY FileUntouched DEF SessionInv
<1> QED
  BY <1>1, <1>2, <1>3, <1>6, <1>7, <1>8, <1>9 DEF SessionInv, TypesInv

LEMMA StoredMore ==
    ASSUME StoredInv, NEW answer, hand.kind \in {"person", "list", "preload"}, Store(answer)
    PROVE  StoredInv'
  BY DEF StoredInv, Store, Key

LEMMA HandProper == ASSUME SessionInv, hand # NULL PROVE hand \in Request /\ Proper(hand)
  BY DEF SessionInv, TypesInv, WorkType, RequestsInv, Requests

\* A page that is no more.
LEMMA StaleKeeps == ASSUME SessionInv, NEW answer, OnStaleAnswered(answer) PROVE SessionInv'
<1>1. CASE End
  BY <1>1, EndKeeps
<1>2. CASE ~End
  <2>1. /\ hand # NULL /\ hand' = NULL
        /\ IF hand.kind = "person" THEN Store(answer) ELSE UNCHANGED stored
        /\ UNCHANGED <<file, up, keys, user, pwd, url, kept, page, made, clicks, edited>>
        /\ UNCHANGED <<login, regist, told, account, locked, catalogue, cids, queue, preloads>>
    BY <1>2 DEF OnStaleAnswered, storeVars, pageVars
  <2>2. StoredInv'
    BY <2>1, StoredMore, StoredUntouched DEF SessionInv
  <2>3. PageType'
    BY <2>1 DEF SessionInv, TypesInv, PageType
  <2>4. page = "Frame" => account'.offers = (user = NULL)
    BY <2>1 DEF SessionInv, PageInv
  <2> QED
    BY <2>1, <2>2, <2>3, <2>4, DoneKeeps
<1> QED
  BY <1>1, <1>2

\* Only credentials of an account are answered well: no such answer is kept.
LEMMA AnsweredWell ==
    ASSUME SessionInv, hand # NULL, hand.kind \in {"start", "check"}, NEW answer \in Answers,
           Valid(answer)
    PROVE  hand.arg \in Accounts
<1>1. ~InStore
  BY DEF SessionInv, StoredInv, InStore, Key
<1> QED
  BY <1>1 DEF Answers, Valid

LEMMA StartAnsweredKeeps ==
    ASSUME SessionInv, NEW answer \in Answers, OnStartAnswered(answer) PROVE SessionInv'
<1>1. /\ hand # NULL /\ hand.kind = "start" /\ hand' = NULL
      /\ UNCHANGED <<file, up, keys, user, pwd, url, stored, catalogue, clicks, edited, kept>>
      /\ IF Valid(answer) THEN LoadFrame(user, url)
         ELSE LoadLogin(user, pwd) /\ UNCHANGED <<queue, preloads, cids>>
  BY DEF OnStartAnswered, Served, storeVars
<1>2. /\ page = "none" /\ user # NULL /\ UrlFits
      /\ hand.arg = [user |-> user, pwd |-> pwd] /\ hand \in Request
  BY <1>1, HandProper DEF Proper
<1>3. queue = <<>> /\ up
  BY <1>1, <1>2 DEF SessionInv, QuietInv
<1>4. user \in Names /\ url \in Url
  BY DEF SessionInv, TypesInv, StoreType
<1>5. StoreType'
  BY <1>1, StoreUntouched DEF SessionInv, TypesInv
<1>6. FileInv' /\ StoredInv'
  BY <1>1, FileUntouched, StoredUntouched DEF SessionInv
<1>7. CASE Valid(answer)
  <2>1. LoadFrame(user, url)
    BY <1>1, <1>7
  <2>2. UrlFits'
    BY <1>1, <1>2 DEF UrlFits
  <2>3. /\ PageType' /\ CategoryType' /\ CategoriesInv' /\ WorkType' /\ RequestsInv'
        /\ page' = "Frame" /\ made' >= 1
        /\ account'.person = user' /\ account'.offers = (user' = NULL)
    BY <1>1, <1>2, <1>3, <1>4, <2>1, <2>2, FrameKeeps DEF SessionInv
  <2>4. [user |-> user, pwd |-> pwd] \in Accounts
    BY <1>1, <1>2, <1>7, AnsweredWell
  <2>5. QuietInv'
    BY <1>1, <1>3, <2>3 DEF QuietInv
  <2>6. PageInv'
    BY <1>1, <2>2, <2>3, <2>4 DEF PageInv, Admitted
  <2> QED
    BY <1>5, <1>6, <2>3, <2>5, <2>6 DEF SessionInv, TypesInv
<1>8. CASE ~Valid(answer)
  <2>1. LoadLogin(user, pwd) /\ UNCHANGED <<queue, preloads, cids>>
    BY <1>1, <1>8
  <2>2. user \in Users \cup {NULL} /\ pwd \in Passwords \cup {NULL}
    <3>1. hand.arg \in [user : Users, pwd : Passwords]
      BY <1>1, <1>2 DEF Request
    <3> QED
      BY <1>2, <3>1
  <2>3. PageType' /\ page' = "Login" /\ made' = made + 1
    BY <2>1, <2>2, LoginLoaded DEF SessionInv, TypesInv
  <2>4. CategoryType' /\ CategoriesInv'
    BY <1>1, <2>1, CategoriesUntouched DEF SessionInv, TypesInv
  <2>5. WorkType'
    BY <1>1, <2>1 DEF SessionInv, TypesInv, WorkType
  <2>6. RequestsInv'
    <3>1. DOMAIN queue' = {}
      BY <1>3, <2>1
    <3> QED
      BY <1>1, <3>1 DEF RequestsInv, Requests
  <2>7. made' >= 1
    BY <2>3, MadeTyped DEF SessionInv, TypesInv
  <2>8. QuietInv' /\ PageInv'
    BY <1>1, <1>3, <2>3, <2>7 DEF QuietInv, PageInv, Admitted
  <2> QED
    BY <1>5, <1>6, <2>3, <2>4, <2>5, <2>6, <2>8 DEF SessionInv, TypesInv
<1> QED
  BY <1>7, <1>8

\* A person, or a check, is never asked for by the stage.
LEMMA OfThePage ==
    ASSUME SessionInv, hand # NULL, hand.kind \in {"person", "check"},
           hand.page \in {Stage, made}
    PROVE  hand.page = made
<1>1. hand.page >= 1
  BY HandProper DEF Proper
<1> QED
  BY <1>1 DEF Stage

\* An accepted check saves the pair, and what was saved is what the history says.
LEMMA SavedPair ==
    ASSUME SessionInv, keys # NULL, up, NEW name \in Names, NEW secret \in Secrets,
           name # NULL, secret # NULL, NEW save \in BOOLEAN,
           NEW new, new = Saved(keys, name, IF save THEN secret ELSE NULL),
           NEW next, next = [user |-> GetValue(name),
                             pwd |-> IF save THEN GetValue(secret) ELSE kept.pwd]
    PROVE  /\ new \in Pairs /\ next \in Pairs
           /\ next = [user |-> GetValue(new.user), pwd |-> GetValue(new.pwd)]
<1>1. keys \in Pairs /\ kept \in Pairs /\ file = keys
  BY DEF SessionInv, TypesInv, StoreType, FileInv
<1>2. file \notin {NULL, Unreadable}
  BY <1>1, NullAssumption
<1>3. kept.pwd = GetValue(keys.pwd)
  BY <1>1, <1>2 DEF SessionInv, FileInv
<1>4. NULL \in Secrets
  BY DEF Secrets
<1>5. new \in Pairs
  BY <1>1, <1>4, SavedTyped
<1>6. GetValue(name) \in Names /\ GetValue(secret) \in Secrets /\ kept.pwd \in Secrets
  BY <1>1 DEF GetValue, Names, Secrets, Pairs
<1>7. new.user = name /\ new.pwd = IF save THEN secret ELSE keys.pwd
  BY DEF Saved
<1>8. next \in Pairs
  BY <1>6 DEF Pairs
<1> QED
  BY <1>3, <1>5, <1>7, <1>8

LEMMA AcceptedKeeps ==
    ASSUME SessionInv, hand # NULL, hand.kind = "check", hand.page = made,
           NEW answer \in Answers, Valid(answer), OnCheckAccepted
    PROVE  SessionInv'
<1> DEFINE name == login.user.text
           secret == login.pwd.text
           save == login.save.selected
<1>1. /\ hand' = NULL /\ user' = name /\ pwd' = secret /\ url' = Address(keys, user', pwd')
      /\ keys' = Saved(keys, user', IF save THEN pwd' ELSE NULL) /\ file' = keys'
      /\ kept' = [user |-> GetValue(user'), pwd |-> IF save THEN GetValue(pwd') ELSE kept.pwd]
      /\ LoadFrame(user', url') /\ UNCHANGED <<up, stored, catalogue, clicks, edited>>
  BY DEF OnCheckAccepted, LoginAs
<1>2. hand \in Request /\ keys # NULL /\ page = "Login" /\ (edited \/ hand.arg = LoginAs)
  BY HandProper DEF Proper
<1>3. hand.arg \in Accounts
  BY AnsweredWell
<1>4. login \in LoginForms
  BY DEF SessionInv, TypesInv, PageType
<1>5. /\ name \in Names /\ secret \in Secrets /\ name # NULL /\ secret # NULL
      /\ save \in BOOLEAN
  BY <1>4, NullAssumption DEF LoginForms, Entry, Names, Secrets
<1>6. LoginAs = [user |-> name, pwd |-> secret]
  BY DEF LoginAs
<1> HIDE DEF name, secret, save
<1>7. up
  BY <1>2 DEF SessionInv, QuietInv
<1>8. /\ keys' \in Pairs /\ kept' \in Pairs
      /\ kept' = [user |-> GetValue(keys'.user), pwd |-> GetValue(keys'.pwd)]
  BY <1>1, <1>2, <1>5, <1>7, SavedPair
<1>9. url' = [user |-> user', pwd |-> pwd'] /\ url' \in Url
  BY <1>1, <1>2, <1>5, AddressTyped DEF Address
<1>10. UrlFits'
  BY <1>1, <1>5, <1>9 DEF UrlFits
<1>11. keys' # NULL /\ keys' # Unreadable
  BY <1>8, NullAssumption
<1>12. /\ PageType' /\ CategoryType' /\ CategoriesInv' /\ WorkType' /\ RequestsInv'
       /\ page' = "Frame" /\ made' >= 1
       /\ account'.person = user' /\ account'.offers = (user' = NULL)
  <2>1. user' \in Names
    BY <1>1, <1>5
  <2> QED
    BY <1>1, <1>2, <1>9, <1>10, <1>11, <2>1, FrameKeeps DEF SessionInv, PageInv
<1>13. StoreType'
  BY <1>1, <1>5, <1>8, <1>9 DEF SessionInv, TypesInv, StoreType
<1>14. QuietInv'
  BY <1>1, <1>7, <1>12 DEF QuietInv
<1>15. PageInv'
  <2>1. edited' \/ [user |-> user', pwd |-> pwd'] \in Accounts
    BY <1>1, <1>2, <1>3, <1>6
  <2> QED
    BY <1>10, <1>12, <2>1 DEF PageInv, Admitted
<1>16. FileInv'
  BY <1>1, <1>8, <1>11 DEF FileInv
<1>17. StoredInv'
  BY <1>1, StoredUntouched DEF SessionInv
<1> QED
  BY <1>12, <1>13, <1>14, <1>15, <1>16, <1>17 DEF SessionInv, TypesInv

LEMMA CheckAnsweredKeeps ==
    ASSUME SessionInv, NEW answer \in Answers, OnCheckAnswered(answer) PROVE SessionInv'
<1>1. hand # NULL /\ hand.kind = "check" /\ hand.page \in {Stage, made}
  BY DEF OnCheckAnswered, Served, Alive
<1>2. CASE Valid(answer) /\ OnCheckAccepted
  <2>1. hand.page = made
    BY <1>1, OfThePage
  <2> QED
    BY <1>1, <1>2, <2>1, AcceptedKeeps
<1>3. CASE End
  BY <1>3, EndKeeps
<1>4. CASE ~Valid(answer) /\ ~End
  <2>1. /\ hand' = NULL
        /\ UNCHANGED <<file, up, keys, user, pwd, url, kept, page, made, clicks, edited>>
        /\ UNCHANGED <<login, regist, told, account, locked, stored, catalogue, cids>>
        /\ UNCHANGED <<queue, preloads>>
    BY <1>4 DEF OnCheckAnswered, storeVars, pageVars, proxyVars
  <2>2. PageType' /\ StoredInv'
    BY <2>1, StoredUntouched DEF SessionInv, TypesInv, PageType
  <2>3. page = "Frame" => account'.offers = (user = NULL)
    BY <2>1 DEF SessionInv, PageInv
  <2> QED
    BY <1>1, <2>1, <2>2, <2>3, DoneKeeps
<1> QED
  BY <1>2, <1>3, <1>4 DEF OnCheckAnswered

LEMMA AddAnsweredKeeps ==
    ASSUME SessionInv, NEW answer, OnAddAnswered(answer) PROVE SessionInv'
<1>1. CASE End
  BY <1>1, EndKeeps
<1>2. CASE ~End
  <2>1. /\ hand # NULL /\ hand' = NULL
        /\ UNCHANGED <<file, up, keys, user, pwd, url, kept, page, made, clicks, edited>>
        /\ UNCHANGED <<login, regist, account, locked, stored, catalogue, cids>>
        /\ UNCHANGED <<queue, preloads>>
        /\ told' = told \/ \E f \in {"username", "email"} : told' = told \cup {f}
    BY <1>2 DEF OnAddAnswered, Served, storeVars, proxyVars
  <2>2. told' \subseteq Fields
    BY <2>1 DEF SessionInv, TypesInv, PageType, Fields
  <2>3. PageType' /\ StoredInv'
    BY <2>1, <2>2, StoredUntouched DEF SessionInv, TypesInv, PageType
  <2>4. page = "Frame" => account'.offers = (user = NULL)
    BY <2>1 DEF SessionInv, PageInv
  <2> QED
    BY <2>1, <2>3, <2>4, DoneKeeps
<1> QED
  BY <1>1, <1>2

LEMMA CategoriesAnsweredKeeps ==
    ASSUME SessionInv, NEW answer, OnCategoriesAnswered(answer) PROVE SessionInv'
<1>1. /\ hand # NULL /\ hand' = NULL /\ UNCHANGED queue
      /\ UNCHANGED <<file, up, keys, user, pwd, url, kept, page, made, clicks, edited>>
      /\ UNCHANGED <<login, regist, told, account, locked, stored>>
  BY DEF OnCategoriesAnswered, Served, storeVars, pageVars
<1>2. /\ catalogue' \in Catalogues \cup {NULL}
      /\ cids' \in [Groups -> SUBSET Ids] /\ preloads' \subseteq SUBSET Ids /\ CategoriesInv'
  <2>1. CASE catalogue # NULL
    <3>1. SetupCategory(catalogue) /\ catalogue' = catalogue /\ catalogue \in Catalogues
      BY <2>1 DEF OnCategoriesAnswered, SessionInv, TypesInv, CategoryType
    <3>2. /\ cids' \in [Groups -> SUBSET Ids] /\ preloads' \subseteq SUBSET Ids
          /\ cids' = [g \in Groups |-> IdsIn(catalogue, g)]
      BY <3>1, Categories DEF SessionInv, TypesInv
    <3> QED
      BY <2>1, <3>1, <3>2 DEF CategoriesInv
  <2>2. CASE catalogue = NULL /\ answer = "ok"
    <3>1. PICK list \in Catalogues : catalogue' = list /\ SetupCategory(list)
      BY <2>2 DEF OnCategoriesAnswered
    <3>2. /\ cids' \in [Groups -> SUBSET Ids] /\ preloads' \subseteq SUBSET Ids
          /\ cids' = [g \in Groups |-> IdsIn(list, g)]
      BY <2>2, <3>1, Categories DEF SessionInv, TypesInv
    <3> QED
      BY <3>1, <3>2, GroupAssumption DEF CategoriesInv
  <2>3. CASE catalogue = NULL /\ answer # "ok"
    <3>1. UNCHANGED <<cids, preloads, catalogue>>
      BY <2>3 DEF OnCategoriesAnswered
    <3> QED
      BY <3>1, CategoriesUntouched DEF SessionInv, TypesInv, CategoryType
  <2> QED
    BY <2>1, <2>2, <2>3
<1>3. CategoryType'
  BY <1>2 DEF CategoryType
<1>4. StoreType' /\ PageType' /\ WorkType'
  BY <1>1 DEF SessionInv, TypesInv, StoreType, PageType, WorkType
<1>5. Requests' \subseteq Requests \cup {NULL}
  BY <1>1 DEF Requests
<1>6. ASSUME NEW r, Proper(r) PROVE Proper(r)'
  BY <1>1, <1>6, ProperUntouched DEF LoginAs
<1>7. RequestsInv'
  BY <1>5, <1>6 DEF SessionInv, RequestsInv
<1>8. QuietInv'
  <2>1. up
    BY <1>1 DEF SessionInv, QuietInv
  <2> QED
    BY <1>1, <2>1 DEF SessionInv, QuietInv
<1>9. PageInv' /\ FileInv' /\ StoredInv'
  BY <1>1, PageUntouched, FileUntouched, StoredUntouched DEF SessionInv
<1> QED
  BY <1>2, <1>3, <1>4, <1>7, <1>8, <1>9 DEF SessionInv, TypesInv

LEMMA DataAnsweredKeeps ==
    ASSUME SessionInv, NEW answer, OnDataAnswered(answer) PROVE SessionInv'
<1>1. /\ hand # NULL /\ hand.kind \in {"person", "list", "preload"}
      /\ hand.page \in {Stage, made} /\ hand' = NULL /\ Store(answer)
      /\ UNCHANGED <<file, up, keys, user, pwd, url, kept, page, made, clicks, edited>>
      /\ UNCHANGED <<login, regist, told, catalogue, cids, queue, preloads>>
  BY DEF OnDataAnswered, Alive, storeVars
<1>2. account' = IF hand.kind = "person" /\ answer = "ok"
                 THEN [account EXCEPT !.filled = TRUE, !.offers = FALSE] ELSE account
  BY DEF OnDataAnswered
<1>3. account \in [person : Names, offers : BOOLEAN, filled : BOOLEAN]
  BY DEF SessionInv, TypesInv, PageType
<1>4. /\ account' \in [person : Names, offers : BOOLEAN, filled : BOOLEAN]
      /\ account'.person = account.person
      /\ account'.offers # account.offers => hand.kind = "person" /\ account'.offers = FALSE
  BY <1>2, <1>3
<1>5. locked' \in BOOLEAN
  BY DEF OnDataAnswered, SessionInv, TypesInv, PageType
<1>6. PageType'
  BY <1>1, <1>4, <1>5 DEF SessionInv, TypesInv, PageType
<1>7. StoredInv'
  BY <1>1, StoredMore DEF SessionInv
<1>8. ASSUME page = "Frame" PROVE account'.offers = (user = NULL)
  <2>1. account.person = user /\ account.offers = (user = NULL)
    BY <1>8 DEF SessionInv, PageInv
  <2>2. CASE account'.offers = account.offers
    BY <2>1, <2>2
  <2>3. CASE account'.offers # account.offers
    <3>1. hand.kind = "person" /\ account'.offers = FALSE
      BY <1>4, <2>3
    <3>2. hand.page = made
      BY <1>1, <3>1, OfThePage
    <3>3. account.person # NULL
      BY <1>1, <3>1, <3>2, HandProper DEF Proper
    <3> QED
      BY <2>1, <3>1, <3>3
  <2> QED
    BY <2>2, <2>3
<1> QED
  BY <1>1, <1>4, <1>6, <1>7, <1>8, DoneKeeps

LEMMA AnswersKeep == ASSUME SessionInv, WorkerAnswers PROVE SessionInv'
  BY StaleKeeps, StartAnsweredKeeps, CheckAnsweredKeeps, AddAnsweredKeeps,
     CategoriesAnsweredKeeps, DataAnsweredKeeps DEF WorkerAnswers

-----------------------------------------------------------------------------
(***************************************************************************)
(* The theorems.                                                            *)
(***************************************************************************)

LEMMA Initially == Init => SessionInv
<1> SUFFICES ASSUME Init PROVE SessionInv
  OBVIOUS
<1>1. /\ file \in Files /\ up = FALSE /\ keys = NULL /\ user = NULL /\ pwd = NULL /\ url = NULL
      /\ cids = [g \in Groups |-> {}] /\ catalogue = NULL /\ stored = {}
      /\ page = "none" /\ made = 0 /\ locked = FALSE /\ account = NoAccount
      /\ login = NoForm /\ regist = NoTexts /\ told = {}
      /\ queue = <<>> /\ preloads = {} /\ hand = NULL /\ clicks = 0 /\ edited = FALSE
      /\ kept = IF file \in {NULL, Unreadable} THEN NoPair
                ELSE [user |-> GetValue(file.user), pwd |-> GetValue(file.pwd)]
  BY DEF Init
<1>2. NULL \in Names /\ NULL \in Url /\ NULL \in Secrets /\ NoPair \in Pairs
  BY DEF Names, Url, Secrets, NoPair, Pairs
<1>3. kept \in Pairs
  <2>1. CASE file \in {NULL, Unreadable}
    BY <1>1, <1>2, <2>1
  <2>2. CASE file \notin {NULL, Unreadable}
    <3>1. file.user \in Names /\ file.pwd \in Secrets
      BY <1>1, <2>2, FileAssumption DEF Pairs
    <3>2. GetValue(file.user) \in Names /\ GetValue(file.pwd) \in Secrets
      BY <3>1 DEF GetValue, Names, Secrets
    <3> QED
      BY <1>1, <2>2, <3>2 DEF Pairs
  <2> QED
    BY <2>1, <2>2
<1>4. StoreType
  <2>1. clicks \in 0 .. MaxClicks
    BY <1>1, FormAssumption
  <2> QED
    BY <1>1, <1>2, <1>3, <2>1, FileAssumption DEF StoreType
<1>5. PageType
  <2>1. made \in Nat
    BY <1>1
  <2> QED
    BY <1>1, <2>1, EmptyTyped DEF PageType
<1>6. CategoryType /\ CategoriesInv /\ WorkType
  BY <1>1 DEF CategoryType, CategoriesInv, WorkType
<1>7. RequestsInv
  <2>1. DOMAIN queue = {}
    BY <1>1
  <2> QED
    BY <1>1, <2>1 DEF RequestsInv, Requests
<1>8. QuietInv /\ PageInv /\ FileInv /\ StoredInv
  BY <1>1 DEF QuietInv, PageInv, Admitted, FileInv, StoredInv
<1> QED
  BY <1>4, <1>5, <1>6, <1>7, <1>8 DEF SessionInv, TypesInv

LEMMA StutterKeeps == ASSUME SessionInv, UNCHANGED vars PROVE SessionInv'
<1> USE DEF vars, storeVars, pageVars, proxyVars, workVars
<1>1. TypesInv'
  BY DEF SessionInv, TypesInv, StoreType, PageType, CategoryType, CategoriesInv, WorkType
<1>2. RequestsInv'
  BY ProperUntouched, RequestsSame DEF SessionInv, RequestsInv, LoginAs
<1>3. QuietInv' /\ PageInv' /\ FileInv' /\ StoredInv'
  BY PageUntouched, FileUntouched, StoredUntouched DEF SessionInv, QuietInv
<1> QED
  BY <1>1, <1>2, <1>3 DEF SessionInv

\* Every step keeps the invariant; a start takes what the history says.
LEMMA StepKeeps ==
    ASSUME SessionInv, [Next]_vars
    PROVE  SessionInv' /\ (StartUp => user' = kept.user /\ pwd' = kept.pwd)
<1>1. ASSUME StartUp PROVE SessionInv'
  BY <1>1, StartKeeps
<1>2. ASSUME Quit PROVE SessionInv'
  BY <1>2, EndKeeps DEF Quit
<1>3. ASSUME Typing PROVE SessionInv'
  BY <1>3, FocusKeeps, TypeKeeps DEF Typing
<1>4. ASSUME Filling PROVE SessionInv'
  BY <1>4, FillKeeps DEF Filling
<1>5. ASSUME Presses PROVE SessionInv'
  BY <1>5, AutologinKeeps, LoginPressKeeps, GuestKeeps, WaysKeep, RegisterPressKeeps,
     ReturnKeeps DEF Presses
<1>6. ASSUME WorkerTakes PROVE SessionInv'
  BY <1>6, TakesKeeps
<1>7. ASSUME WorkerAnswers PROVE SessionInv'
  BY <1>7, AnswersKeep
<1>8. ASSUME UNCHANGED vars PROVE SessionInv'
  BY <1>8, StutterKeeps
<1>9. SessionInv'
  BY <1>1, <1>2, <1>3, <1>4, <1>5, <1>6, <1>7, <1>8 DEF Next
<1> QED
  BY <1>9, StartKeeps

LEMMA Always == Spec => []SessionInv
<1>1. SessionInv /\ [Next]_vars => SessionInv'
  BY StepKeeps
<1> QED
  BY <1>1, Initially, PTL DEF Spec

\* Every variable keeps its type.
THEOREM TypeCorrect == Spec => []TypeOK
<1>1. SessionInv => TypeOK
  BY Parts DEF SessionInv, TypesInv
<1> QED
  BY <1>1, Always, PTL

\* No one gets past the login page with credentials that the server has not
\* accepted, for the texts that were sent.
THEOREM NobodyUnchecked == Spec => []Admitted
<1>1. SessionInv => Admitted
  BY DEF SessionInv, PageInv
<1> QED
  BY <1>1, Always, PTL

\* The frame, its account, its requests and the store are of one user.
THEOREM OneUser == Spec => []ShownIsUsed
<1>1. SessionInv => ShownIsUsed
  <2> SUFFICES ASSUME SessionInv, page = "Frame" PROVE
          /\ account.person = user
          /\ account.offers = (user = NULL)
          /\ url = IF user = NULL THEN NULL ELSE [user |-> user, pwd |-> pwd]
          /\ \A r \in Requests \ {NULL} : r.page = made => r.url = url
    BY DEF ShownIsUsed
  <2>1. account.person = user /\ account.offers = (user = NULL) /\ UrlFits
    BY DEF SessionInv, PageInv
  <2>2. \A r \in Requests \ {NULL} : r.page = made => r.url = url
    BY DEF SessionInv, RequestsInv, Proper
  <2> QED
    BY <2>1, <2>2 DEF UrlFits
<1> QED
  BY <1>1, Always, PTL

\* Whatever the server answers about its categories, all that have a name are
\* listed, and where they belong.
THEOREM AllListed == Spec => []EveryCategoryListed
<1>1. SessionInv => EveryCategoryListed
  <2> SUFFICES ASSUME SessionInv, catalogue # NULL, NEW c \in catalogue, c.named
               PROVE  /\ \E g \in Groups : c.id \in CidsByName(g)
                      /\ c.id \in CidsByName(Other) =>
                           Other \in c.hits \/ \A g \in Groups \ {Other} : c.id \notin CidsByName(g)
    BY DEF EveryCategoryListed
  <2>1. catalogue \in Catalogues /\ cids = [g \in Groups |-> IdsIn(catalogue, g)]
    BY DEF SessionInv, TypesInv, CategoryType, CategoriesInv
  <2>2. c.hits \subseteq Groups /\ Other \in Groups /\ c.id \in Ids /\ c.id # "-1"
    BY <2>1, GroupAssumption DEF Ids
  <2>3. ASSUME NEW g \in Groups
        PROVE  c.id \in CidsByName(g) <=> ListedIn(c, g)
    <3>1. cids[g] = IdsIn(catalogue, g)
      BY <2>1
    <3>2. c.id \in IdsIn(catalogue, g) <=> ListedIn(c, g)
      <4>1. \A d \in catalogue : d.id = c.id => d = c
        BY <2>1, GroupAssumption
      <4> QED
        BY <4>1 DEF IdsIn
    <3> QED
      BY <2>2, <3>1, <3>2 DEF CidsByName
  <2>4. \E g \in Groups : ListedIn(c, g)
    BY <2>2 DEF ListedIn
  <2>5. ListedIn(c, Other) /\ Other \notin c.hits =>
            \A g \in Groups \ {Other} : ~ListedIn(c, g)
    BY DEF ListedIn
  <2> QED
    BY <2>2, <2>3, <2>4, <2>5
<1> QED
  BY <1>1, Always, PTL

\* A start takes the name and the password of the logins before, as they were to
\* be remembered.
THEOREM SameAgain == Spec => StartsAsLastLogin
<1>1. SessionInv /\ [Next]_vars => [StartUp => user' = kept.user /\ pwd' = kept.pwd]_vars
  BY StepKeeps
<1> QED
  BY <1>1, Always, PTL DEF Spec, StartsAsLastLogin
=============================================================================
