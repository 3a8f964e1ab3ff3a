----------------------------- MODULE MCZteDialog -----------------------------
(* Instances of ZteDialog for TLC. *)
EXTENDS ZteDialog

\* The MF79RU B02 lists newest first and ignores the page number; a device
\* that honours both requests, and one that honours only the pages.
SomeDevices ==
  {[newestFirst |-> TRUE, paged |-> FALSE],
   [newestFirst |-> FALSE, paged |-> TRUE],
   [newestFirst |-> TRUE, paged |-> TRUE]}
=============================================================================
