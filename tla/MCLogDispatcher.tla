--------------------------- MODULE MCLogDispatcher ---------------------------
(* Remote logging to a server by name, moved to one by address or turned off. *)
EXTENDS LogDispatcher

CONSTANTS named, fixed    \* two servers

MCHost == {named, fixed}
MCLiterals == {fixed}
All == [host |-> named, level |-> 0]
ErrorsOnly == [host |-> fixed, level |-> 2]
MCSaveable == {Off, All, ErrorsOnly}
MCAtBoot == {Off, All, ErrorsOnly}

==============================================================================
