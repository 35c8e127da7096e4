--------------------------- MODULE MCScrapeSources ---------------------------
(* ScrapeSources on small instances.                                       *)
EXTENDS ScrapeSources

\* Two default sources, and a link whose last part is the name of one.
Channel == [name |-> "a", url |-> "a"]
Link    == [name |-> "b", url |-> "https://x/b"]
Other   == [name |-> "a", url |-> "https://y/a"]

MCListed == <<Channel, Other, Link>>
MCDefaults == <<Channel, Link>>
MCSources == {Channel, Link, Other}
=============================================================================
