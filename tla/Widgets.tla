------------------------------- MODULE Widgets ------------------------------
(***************************************************************************)
(* src/widgets as far as the pages depend on it: operators on the records   *)
(* that stand for an entry, a check box, a button and a spinning texture,   *)
(* and the text patterns of open-app-utils.c.  Session, Comments and        *)
(* Downloads hold the records; drawing, hovering and scaling are left out.  *)
(***************************************************************************)
EXTENDS Naturals

(***************************************************************************)
(* GnomeAppEntry, and GnomeAppText, whose handlers are the same: a hint is  *)
(* drawn over the text as long as nothing is written.                       *)
(***************************************************************************)

NewEntry == [text |-> "", focus |-> FALSE, hint |-> TRUE]

FocusIn(e) == [e EXCEPT !.focus = TRUE, !.hint = FALSE]

FocusOut(e) == [e EXCEPT !.focus = FALSE, !.hint = e.text = ""]

\* gnome_app_entry_set_text, or a key, and the handler of "text_changed".
TextChanged(e, text) == [e EXCEPT !.text = text, !.hint = text = "" /\ ~e.focus]

(***************************************************************************)
(* GnomeAppCheckBox and GnomeAppButton.                                     *)
(***************************************************************************)

NewCheckBox == [selected |-> FALSE]

PressCheckBox(c) == [c EXCEPT !.selected = ~c.selected]

NewButton == [mode |-> "normal", selected |-> FALSE]

\* Whatever sets the selection makes the button one that can be selected.
SetSelected(b, selected) == [b EXCEPT !.mode = "select", !.selected = selected]

(***************************************************************************)
(* GnomeAppTexture: a timer shows the next file of the spin directory until *)
(* it finds the texture stopped.                                            *)
(***************************************************************************)

NewTexture == [status |-> "INIT", shown |-> FALSE, timers |-> 0]

\* Every start adds a timer, whether or not an older one is about to end.
Start(t) == [status |-> "START", shown |-> TRUE, timers |-> t.timers + 1]

\* `if (priv->status = TEXTURE_STATUS_START)' is true whatever the status was.
Stop(t) == [t EXCEPT !.status = "STOP", !.shown = FALSE]

\* Mutant of Timeout: the timer goes on, stopped or not.
TimeoutGoesOn(t) == t

Timeout(t) == IF t.status = "STOP" THEN [t EXCEPT !.timers = @ - 1] ELSE t

(***************************************************************************)
(* open_app_pattern_match.  A text is one of these kinds; the pattern        *)
(* "blank" is anchored at the start alone, so it also takes a text that      *)
(* begins with a space, and it does not take the empty text.                 *)
(***************************************************************************)

Texts == {"", "spaces", " word", "word", "alnum8", "email"}

Matching == [blank    |-> {"spaces", " word"},
             notblank |-> Texts \ {"", "spaces"},
             email    |-> {"email"},
             password |-> {"alnum8"}]

PatternMatch(pattern, text) == text # "" /\ text \in Matching[pattern]
=============================================================================
