------------------------------ MODULE MCUnoGame ------------------------------
(* UnoGame on small decks: every order of the deck, every legal request of    *)
(* either player at every moment.                                             *)
EXTENDS UnoGame
=============================================================================
