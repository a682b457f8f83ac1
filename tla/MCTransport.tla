---------------------------- MODULE MCTransport -----------------------------
(* An instance of Transport for TLC: every kind of message, two request ids  *)
(* and two documents.                                                        *)
EXTENDS Transport

CONSTANTS u1, u2

TwoIds     == {1, 2}
TwoUris    == {u1, u2}
AllTraffic == RequestKinds \cup NoteKinds
=============================================================================
