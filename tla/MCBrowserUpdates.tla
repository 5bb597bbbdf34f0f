--------------------------- MODULE MCBrowserUpdates ---------------------------
(* Two request threads: one of the panel's owner and one of the browser's   *)
(* poll, or two browsers.                                                   *)
EXTENDS BrowserUpdates

\* Every operation ends, and the lifecycle slot comes back.
RequestsEnd == OperationEnds /\ GateReturns

=============================================================================
