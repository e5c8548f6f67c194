----------------------------- MODULE MCTaskCache -----------------------------
(* TaskCache with one content: two pages of comments, the content's page and  *)
(* its fan status.                                                            *)
EXTENDS TaskCache

CONSTANT app

Get_(type, page) == [type |-> type, content |-> app, page |-> page]

CommentPages == {Get_("COMMENTS_GET", 0), Get_("COMMENTS_GET", 1)}
TwoRequests == {Get_("COMMENTS_GET", 0), Get_("CONTENT_GET", NoPage)}
MixedRequests == CommentPages \cup {Get_("CONTENT_GET", NoPage)}
FanRequests == CommentPages \cup {Get_("FAN_IS_FAN", NoPage)}

Posts_(types) == {[type |-> type, content |-> app] : type \in types}
CommentPost == Posts_({"COMMENTS_ADD"})
SomePosts == Posts_({"COMMENTS_ADD", "FAN_ADD", "OTHER"})
=============================================================================
