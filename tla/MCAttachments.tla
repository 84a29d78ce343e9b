---------------------------- MODULE MCAttachments ----------------------------
(* Instances of Attachments and of SafeFetch for TLC. *)
EXTENDS Attachments, SafeFetch

MCRedirects == [valid : {TRUE}, kind : {"redirect"}, to : Urls \cup {0}]
MCBodies ==
  [valid : BOOLEAN, kind : {"body"}, declared : {Undeclared, 1, 3}, chunks : {<<1>>, <<2, 1>>}]

\* Every web of three URLs.
FetchesKeepLimits ==
  FetchKeepsLimits(
    [Urls -> MCRedirects \cup MCBodies \cup {[valid |-> TRUE, kind |-> "error"]}], {1, 4})

\* A fetch keeps its limits.  This depends on no variable of Attachments, so one state
\* is enough to look at it.
FetchesAreBounded == Init => FetchesKeepLimits
=============================================================================
