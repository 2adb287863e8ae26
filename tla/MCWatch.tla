------------------------------ MODULE MCWatch ------------------------------
(* Small instances of WatchTarget for TLC.                                   *)
EXTENDS WatchProperties

CONSTANTS a, b

\* A document comes while another stays; both go; one comes back.
Story == <<{a}, {a, b}, {b}, {}, {b}>>

\* One change, for the runs that are about the requests alone.
OneChange == <<{a}, {b}>>
=============================================================================
