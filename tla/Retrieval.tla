----------------------------- MODULE Retrieval -----------------------------
(***************************************************************************)
(* What get_feeds relies on when it constructs an article_retriever: the    *)
(* constructor returns with the article's page, or, when the network or the *)
(* chain of redirects was not in order, with anything at all, or it throws. *)
(* FeedWatcher.tla has these outcomes as the actions Retrieve and           *)
(* RetrieveThrows.                                                         *)
(***************************************************************************)
VARIABLES
  result,   \* "none", "pending", "returned" or "threw"
  content,  \* what m_article_content holds
  trouble   \* something that is not in order has been met

Contents == {"page", "part", "empty", "other"}

Init == result = "none" /\ content = "empty" /\ trouble = FALSE

Begin ==
  /\ result \in {"none", "returned"}
  /\ result' = "pending"
  /\ content' = "empty"
  /\ trouble' \in BOOLEAN

\* The link is no address.
Refuse ==
  /\ result \in {"none", "returned"}
  /\ result' = "threw"
  /\ content' = "empty"
  /\ trouble'

Upset ==
  /\ result = "pending"
  /\ trouble' = TRUE
  /\ UNCHANGED <<result, content>>

Return ==
  /\ result = "pending"
  /\ result' = "returned"
  /\ content' \in IF trouble' THEN Contents ELSE {"page"}
  /\ trouble => trouble'

Throw ==
  /\ result = "pending"
  /\ result' = "threw"
  /\ trouble'
  /\ trouble => trouble'
  /\ UNCHANGED content

Restart == result = "threw" /\ result' = "none" /\ content' = "empty" /\ trouble' = FALSE

Next == Begin \/ Refuse \/ Upset \/ Return \/ Throw \/ Restart

Spec == Init /\ [][Next]_<<result, content, trouble>>
=============================================================================
