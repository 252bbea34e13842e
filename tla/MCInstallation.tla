--------------------------- MODULE MCInstallation ---------------------------
(* An instance of Installation for TLC. *)
EXTENDS Installation

CONSTANTS ca1, ca2   \* contents of two CA files

(* A source the console describes, and two described locally, which differ *)
(* in the reader and the certificate.                                      *)
Console == [reader |-> NoRole,  organization |-> "org", certificate |-> NoCertificate]
Alice   == [reader |-> "alice", organization |-> "org", certificate |-> ca1]
Bob     == [reader |-> "bob",   organization |-> "other", certificate |-> ca2]

MCAnswers == {Console, Alice, Bob}
MCLegacy  == {Alice}

(* What the console says along with "bob" is not valid over Alice's file.  *)
MCIncompatible == {<<"bob", Alice>>}

(* A first run, a run that repairs, and one that nobody answers. *)
MCOptions ==
  { [repair |-> FALSE, inputs |-> Inputs],
    [repair |-> TRUE,  inputs |-> Inputs],
    [repair |-> FALSE, inputs |-> {"token"}] }
=============================================================================
