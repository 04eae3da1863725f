---------------------------- MODULE MCRootThread ----------------------------
(* Instances of RootThread for TLC.                                         *)
EXTENDS RootThread

NoGuest == {}
GuestOne == {1}
GuestTwo == {1, 2}

=============================================================================
