------------------------------ MODULE UnoPartida ------------------------------
(* What a match promises the two people at their screens: there is one course *)
(* of the match, counted in moves; each screen shows a point of it, never one *)
(* before the last shown; and after the last move the screens announce the    *)
(* one winner.  A screen may stop at any point, for its client or the server  *)
(* may leave.  UnoMatch is shown to implement it.                             *)
EXTENDS Naturals

CONSTANT Jogadores

VARIABLES lance,      \* the point the match has come to
          vencedor,   \* the players who have won: none, or one at the end
          visto,      \* [p]: the point that the screen of p shows, 0 before the first
          anunciado   \* [p]: what p was told of the end

partidaVars == <<lance, vencedor, visto, anunciado>>

Init ==
    /\ lance = 1
    /\ vencedor = {}
    /\ visto = [p \in Jogadores |-> 0]
    /\ anunciado = [p \in Jogadores |-> "nada"]

\* A move, which may be the last.
Joga ==
    /\ vencedor = {}
    /\ lance' = lance + 1
    /\ vencedor' \in {{}} \cup {{p} : p \in Jogadores}
    /\ UNCHANGED <<visto, anunciado>>

\* The screen of p goes forward, possibly by several moves.
Ve(p) ==
    /\ \E l \in visto[p] + 1 .. lance : visto' = [visto EXCEPT ![p] = l]
    /\ UNCHANGED <<lance, vencedor, anunciado>>

\* The screen of p comes to the end.
VeFim(p) ==
    /\ vencedor # {} /\ anunciado[p] = "nada"
    /\ visto' = [visto EXCEPT ![p] = lance]
    /\ anunciado' = [anunciado EXCEPT ![p] = IF p \in vencedor THEN "venceu" ELSE "perdeu"]
    /\ UNCHANGED <<lance, vencedor>>

Next == Joga \/ \E p \in Jogadores : Ve(p) \/ VeFim(p)

Spec == Init /\ [][Next]_partidaVars
=============================================================================
