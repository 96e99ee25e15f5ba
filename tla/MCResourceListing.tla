-------------------------- MODULE MCResourceListing --------------------------
(* Small instances of ResourceListing for TLC. *)
EXTENDS ResourceListing

CONSTANTS i1, i2, i3

ThreeIds == {i1, i2, i3}

Keysets ==
  {[sql |-> "read", mode |-> "keyset", cursor_column |-> "plain", page_size |-> n] :
     n \in {1, 2}}
Offsets == {[c EXCEPT !.mode = "offset", !.cursor_column = "blank"] : c \in Keysets}
BothModes == Keysets \cup Offsets
=============================================================================
