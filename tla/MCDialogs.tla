------------------------------ MODULE MCDialogs -----------------------------
(* One application with two links; two dialogs, two folders, of which one is  *)
(* empty, one friend.                                                        *)
EXTENDS Dialogs

CONSTANTS inbox, sent

MCFolders == {inbox, sent}
MCFull == {inbox}
=============================================================================
