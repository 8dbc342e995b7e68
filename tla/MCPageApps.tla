----------------------------- MODULE MCPageApps -----------------------------
(***************************************************************************)
(* Two applications, a page that has its focus moved and one that has not, *)
(* which defines a key code of its own; addresses with one digit, two and  *)
(* three, capital and small letters, with and without parameters.          *)
(***************************************************************************)
EXTENDS PageApps

MCApps ==
  {[id |-> <<"1", "0">>, url |-> "ard"], [id |-> <<"1", "0">>, url |-> "tagesschau"],
   [id |-> <<"0", "A">>, url |-> "ard"]}
MCUrls == {"ard", "tagesschau"}
MCUris ==
  {[id |-> <<"1", "0">>, rest |-> "parameters"], [id |-> <<"a">>, rest |-> "none"],
   [id |-> <<"0", "1", "0">>, rest |-> "none"],
   [id |-> <<"0", "A">>, rest |-> "dottedFragment"], [id |-> <<"2">>, rest |-> "none"]}
MCOwn == [ard |-> [VK_RED |-> 1], tagesschau |-> [k \in {} |-> 0]]
MCLinks ==
  LET Link(tab, shown) == [tabIndex |-> tab, shown |-> shown, takes |-> TRUE]
  IN [ard |-> <<>>,
      tagesschau |-> <<Link(0, TRUE), Link(2, TRUE), Link(-1, FALSE), Link(1, TRUE), Link(2, TRUE)>>]
MCTagesschau == {"tagesschau"}
MCKeyNames == {"VK_DOWN", "VK_RED"}
MCPcCodes == {82, 48, F5}
=============================================================================
