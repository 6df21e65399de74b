------------------------ MODULE MCEndorsementClosure ------------------------
(* Five endorsements among four accounts, of a badge whose definition lets  *)
(* anyone award it, or only accounts 1 and 4; awards, the definition and    *)
(* the rejection of an award come and go, the rejection also as an invalid  *)
(* row.                                                                     *)
EXTENDS EndorsementClosure

Award(i, s) ==
  [uri |-> <<"award", i, s>>, issuer |-> i, subject |-> s, badge |-> <<"badge">>,
   valid |-> TRUE]
Badge(allowed) ==
  [uri |-> <<"badge">>, allowed |-> allowed, endorsement |-> TRUE, valid |-> TRUE]

MCAwards == {Award(1, 4), Award(1, 3), Award(4, 3), Award(4, 2), Award(3, 2)}
MCBadges == {Badge(Anyone), Badge({1, 4})}
MCResponses == {[uri |-> <<"response", 2>>, did |-> 2, award |-> <<"award", 4, 2>>,
                 rejected |-> TRUE, valid |-> v] : v \in BOOLEAN}
=============================================================================
