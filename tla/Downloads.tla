------------------------------ MODULE Downloads -----------------------------
(***************************************************************************)
(* The download button of an info page and the list of links under it       *)
(* (gnome-app-download.c).  A press on the price of a link asks the server  *)
(* for it, which is what buys it.  What the prices and the balance look     *)
(* like is left out.                                                        *)
(***************************************************************************)
EXTENDS Requests, Widgets

CONSTANTS
    Links,          \* number of links of the application
    Downloaded      \* downloads so far, as the application's data tells

ASSUME LinkAssumption == Links \in Nat /\ Downloaded \in Nat

VARIABLE download   \* the dialog of the page, or NULL

\* gnome_app_download_set_with_data: the links are numbered from 1.
NewDownload == [expand |-> FALSE, button |-> NewButton, count |-> Downloaded]

\* The button takes the press to itself, and shows whether the list is open.
OnDownloadButtonPress ==
    /\ download # NULL
    /\ Clicks
    /\ download' = [download EXCEPT !.expand = ~@,
                                    !.button = SetSelected(@, ~download.expand)]
    /\ UNCHANGED <<workVars, serverVars, ended>>

\* download_callback: a link that is opened counts, whoever answered.
OneMore(d, ok) == IF ok THEN [d EXCEPT !.count = @ + 1] ELSE d

OnDownloadItemPress(i) ==
    /\ download # NULL /\ download.expand
    /\ Clicks
    /\ IF Known("item", i)
       THEN download' = OneMore(download, TRUE) /\ UNCHANGED queue
       ELSE queue' = <<Ask("item", i, "download")>> \o queue /\ UNCHANGED download
    /\ UNCHANGED <<hand, serverVars, ended>>

DownloadCallback ==
    /\ At("callback") /\ hand.task.owner = "download"
    /\ download' = OneMore(download, hand.ok)
    /\ CalledBack(<<>>, {})
    /\ UNCHANGED <<serverVars, clicks, ended>>

DownloadLists == [expand : BOOLEAN, count : Nat,
                  button : [mode : {"normal", "select"}, selected : BOOLEAN]]

DownloadType == download \in DownloadLists \cup {NULL}
=============================================================================
