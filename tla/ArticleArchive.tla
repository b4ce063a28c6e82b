--------------------------- MODULE ArticleArchive ---------------------------
(***************************************************************************)
(* What the watcher promises to a reader of its database and to the        *)
(* subscribers of callback_handler::new_article, whatever fails or crashes: *)
(*   - an article, once recorded, is never changed, moved or lost;          *)
(*   - a title is recorded at most once;                                   *)
(*   - an article is announced at most once, after it is recorded, and     *)
(*     articles are announced in the order they were recorded.             *)
(* An article may stay unannounced (a crash between the two steps).        *)
(***************************************************************************)
EXTENDS Naturals, Sequences

CONSTANTS Titles, Contents

VARIABLES
  archive,     \* the recorded articles; a uid is an index
  announced    \* the uids subscribers were told of

vars == <<archive, announced>>

Init == archive = <<>> /\ announced = {}

Record ==
  \E title \in Titles, content \in Contents :
    /\ \A uid \in DOMAIN archive : archive[uid].title # title
    /\ archive' = Append(archive, [title |-> title, content |-> content])
    /\ UNCHANGED announced

Announce ==
  \E uid \in DOMAIN archive :
    /\ \A v \in announced : v < uid
    /\ announced' = announced \cup {uid}
    /\ UNCHANGED archive

Next == Record \/ Announce

Spec == Init /\ [][Next]_vars
=============================================================================
