---------------------------- MODULE UnoTelaProofs ----------------------------
(* The geometry of the board, for every window that validarTela lets pass and *)
(* every hand that fits the array of a message: what is drawn stays inside    *)
(* the border, and no two things are drawn over each other.                   *)
EXTENDS UnoTela, SequenceTheorems, TLAPS

Telas == [width : Int, height : Int]

Retangulos == [x : Int, y : Int, width : Int, height : Int]

\* (z - 35) / 2, (z - 25) / 2 and (z - 2) / 10 as C computes them.
LEMMA Quocientes ==
    ASSUME NEW z \in Int
    PROVE  /\ z \div 2 \in Int /\ z \div 10 \in Int
           /\ 2 * (z \div 2) <= z /\ z < 2 * (z \div 2) + 2
           /\ 10 * (z \div 10) <= z /\ z < 10 * (z \div 10) + 10
OBVIOUS

(* d is b, p, m and h one after another: the six lines, the pile, the hand    *)
(* and the four lines of the HUD.                                             *)
Partes(S, b, p, m, h, d) ==
    /\ d \in Seq(S) /\ Len(d) = Len(m) + 11
    /\ \A k \in 1 .. 6 : d[k] = b[k]
    /\ d[7] = p[1]
    /\ \A k \in 1 .. Len(m) : d[7 + k] = m[k]
    /\ \A k \in 1 .. 4 : d[7 + Len(m) + k] = h[k]

LEMMA QuatroPartes ==
    ASSUME NEW S, NEW b \in Seq(S), NEW p \in Seq(S), NEW m \in Seq(S), NEW h \in Seq(S),
           Len(b) = 6, Len(p) = 1, Len(h) = 4
    PROVE  Partes(S, b, p, m, h, ((b \o p) \o m) \o h)
<1> DEFINE u == b \o p
           v == u \o m
           d == v \o h
           n == Len(m)
<1>0. n \in Nat
  OBVIOUS
<1> HIDE DEF n
<1>1. /\ u \in Seq(S) /\ Len(u) = Len(b) + Len(p)
      /\ \A k \in 1 .. Len(b) + Len(p) : u[k] = IF k <= Len(b) THEN b[k] ELSE p[k - Len(b)]
  BY ConcatProperties
<1> HIDE DEF u
<1>2. /\ v \in Seq(S) /\ Len(v) = Len(u) + Len(m)
      /\ \A k \in 1 .. Len(u) + Len(m) : v[k] = IF k <= Len(u) THEN u[k] ELSE m[k - Len(u)]
  <2>1. u \in Seq(S)
    BY <1>1
  <2> QED  BY <2>1, ConcatProperties
<1> HIDE DEF v
<1>3. /\ d \in Seq(S) /\ Len(d) = Len(v) + Len(h)
      /\ \A k \in 1 .. Len(v) + Len(h) : d[k] = IF k <= Len(v) THEN v[k] ELSE h[k - Len(v)]
  <2>1. v \in Seq(S)
    BY <1>2
  <2> QED  BY <2>1, ConcatProperties
<1> HIDE DEF d
<1>4. Len(u) = 7 /\ Len(v) = 7 + n /\ Len(d) = n + 11
  BY <1>0, <1>1, <1>2, <1>3 DEF n
<1>5. /\ \A k \in 1 .. 6 : u[k] = b[k]
      /\ u[7] = p[1]
      /\ \A k \in 1 .. 7 : v[k] = u[k]
      /\ \A k \in 1 .. n : v[7 + k] = m[k]
      /\ \A k \in 1 .. 7 + n : d[k] = v[k]
      /\ \A k \in 1 .. 4 : d[7 + n + k] = h[k]
  <2>1. /\ \A k \in 1 .. 6 : u[k] = b[k]
        /\ u[7] = p[1]
    BY <1>1, <1>4
  <2>2. /\ \A k \in 1 .. 7 : v[k] = u[k]
        /\ \A k \in 1 .. n : v[7 + k] = m[k]
    <3>1. \A k \in 1 .. 7 + n : v[k] = IF k <= 7 THEN u[k] ELSE m[k - 7]
      BY <1>2, <1>4 DEF n
    <3>2. \A k \in 1 .. 7 : v[k] = u[k]
      BY <1>0, <3>1
    <3>3. ASSUME NEW k \in 1 .. n PROVE v[7 + k] = m[k]
      <4>1. 7 + k \in 1 .. 7 + n /\ ~(7 + k <= 7) /\ (7 + k) - 7 = k
        BY <1>0
      <4> QED  BY <3>1, <4>1
    <3> QED  BY <3>2, <3>3
  <2>3. /\ \A k \in 1 .. 7 + n : d[k] = v[k]
        /\ \A k \in 1 .. 4 : d[7 + n + k] = h[k]
    <3>1. \A k \in 1 .. 7 + n + 4 : d[k] = IF k <= 7 + n THEN v[k] ELSE h[k - (7 + n)]
      BY <1>3, <1>4
    <3>2. \A k \in 1 .. 7 + n : d[k] = v[k]
      BY <1>0, <3>1
    <3>3. ASSUME NEW k \in 1 .. 4 PROVE d[7 + n + k] = h[k]
      <4>1. 7 + n + k \in 1 .. 7 + n + 4 /\ ~(7 + n + k <= 7 + n) /\ (7 + n + k) - (7 + n) = k
        BY <1>0
      <4> QED  BY <3>1, <4>1
    <3> QED  BY <3>2, <3>3
  <2> QED  BY <2>1, <2>2, <2>3
<1>6. /\ \A k \in 1 .. 6 : d[k] = b[k]
      /\ d[7] = p[1]
      /\ \A k \in 1 .. n : d[7 + k] = m[k]
  <2>1. ASSUME NEW k \in 1 .. 7 PROVE d[k] = u[k]
    <3>1. k \in 1 .. 7 + n
      BY <1>0
    <3> QED  BY <1>5, <3>1
  <2>2. ASSUME NEW k \in 1 .. n PROVE d[7 + k] = m[k]
    <3>1. 7 + k \in 1 .. 7 + n
      BY <1>0
    <3> QED  BY <1>5, <3>1
  <2>3. \A k \in 1 .. 6 : d[k] = b[k]
    BY <1>5, <2>1
  <2> QED  BY <1>5, <2>1, <2>2, <2>3
<1>7. Partes(S, b, p, m, h, d)
  BY <1>3, <1>4, <1>5, <1>6 DEF Partes, n
<1> QED  BY <1>7 DEF d, v, u

-----------------------------------------------------------------------------
(* The pieces, in the order in which they are drawn.                          *)

\* Lines 1 and 2 under and over the zones, the frame 3 .. 6, the pile 7.
Fixas(tela) ==
    <<Retangulo(1, 10, tela.width - 2, 1),
      Retangulo(1, tela.height - 10, tela.width - 2, 1),
      Retangulo(35, 15, tela.width - 69, 1),
      Retangulo(35, tela.height - 15, tela.width - 69, 1),
      Retangulo(35, 16, 1, tela.height - 31),
      Retangulo(tela.width - 35, 16, 1, tela.height - 31),
      Retangulo(15 + (tela.width - 35) \div 2, 10 + (tela.height - 25) \div 2, 5, 5)>>

Carta(tela, i) ==
    Retangulo(1 + (tela.width - 2) \div 10 + (i - 1) * 7, tela.height - 8, 5, 5)

LinhaDoHUD(i) == Retangulo(3, 2 + 2 * (i - 1), LinhasDoHUD[i], 1)

Mao(tela, n) == [i \in 1 .. n |-> Carta(tela, i)]

HUD == [i \in 1 .. 4 |-> LinhaDoHUD(i)]

LEMMA Medidas ==
    ASSUME NEW tela \in Telas
    PROVE  LET l == CreateBoardLayout(tela)
           IN  /\ l.top = Retangulo(1, 1, tela.width - 1, 10)
               /\ l.bottom = Retangulo(1, tela.height - 10, tela.width - 2, 10)
               /\ l.center = Retangulo(15, 10, tela.width - 30, tela.height - 20)
BY DEF Telas, CreateBoardLayout, TOP_HEIGHT, BOTTOM_HEIGHT, SIDE_WIDTH

\* What is at each place of the drawing.
LEMMA Pecas ==
    ASSUME NEW tela \in Telas, NEW n \in Nat
    PROVE  LET d == Desenho(tela, n)
           IN  /\ DOMAIN d = 1 .. n + 11
               /\ \A k \in 1 .. 7 : d[k] = Fixas(tela)[k]
               /\ \A k \in 1 .. n : d[7 + k] = Carta(tela, k)
               /\ \A k \in 1 .. 4 : d[7 + n + k] = LinhaDoHUD(k)
<1> DEFINE l == CreateBoardLayout(tela)
           b == DrawBoard(l)
           p == <<DrawDiscardPile(l.center)>>
           m == DrawPlayerHand(l.bottom, n)
           h == DrawHUD(l.top)
<1>0. Desenho(tela, n) = ((b \o p) \o m) \o h
  BY DEF Desenho
<1>1. /\ l.top = Retangulo(1, 1, tela.width - 1, 10)
      /\ l.bottom = Retangulo(1, tela.height - 10, tela.width - 2, 10)
      /\ l.center = Retangulo(15, 10, tela.width - 30, tela.height - 20)
      /\ tela.width \in Int /\ tela.height \in Int
  BY Medidas DEF Telas
<1> HIDE DEF l
<1>2. /\ (tela.width - 35) \div 2 \in Int /\ (tela.height - 25) \div 2 \in Int
      /\ (tela.width - 2) \div 10 \in Int
  BY <1>1, Quocientes
<1>3. /\ b \in Seq(Retangulos) /\ Len(b) = 6
      /\ \A k \in 1 .. 6 : b[k] = Fixas(tela)[k]
  BY <1>1, <1>2 DEF DrawBoard, Retangulo, Fixas, Retangulos
<1>4. /\ p \in Seq(Retangulos) /\ Len(p) = 1 /\ p[1] = Fixas(tela)[7]
  BY <1>1, <1>2 DEF DrawDiscardPile, DrawCard, Retangulo, Fixas, Retangulos, CARD_WIDTH,
     CARD_HEIGHT
<1>5. /\ m \in Seq(Retangulos) /\ Len(m) = n
      /\ \A k \in 1 .. n : m[k] = Carta(tela, k)
  <2>1. 10 \div 5 = 2
    OBVIOUS
  <2>2. m = Mao(tela, n)
    BY <1>1, <2>1 DEF DrawPlayerHand, Mao, Carta, DrawCard, Retangulo, CARD_WIDTH,
       CARD_HEIGHT, CARD_GAP
  <2>3. \A k \in 1 .. n : Carta(tela, k) \in Retangulos
    BY <1>1, <1>2 DEF Carta, Retangulo, Retangulos
  <2> QED  BY <2>2, <2>3 DEF Mao
<1>6. /\ h \in Seq(Retangulos) /\ Len(h) = 4
      /\ \A k \in 1 .. 4 : h[k] = LinhaDoHUD(k)
  <2>1. DOMAIN LinhasDoHUD = 1 .. 4
    BY DEF LinhasDoHUD
  <2>2. h = HUD
    BY <1>1, <2>1 DEF DrawHUD, HUD, LinhaDoHUD, Retangulo
  <2>3. \A k \in 1 .. 4 : LinhaDoHUD(k) \in Retangulos
    BY DEF LinhaDoHUD, LinhasDoHUD, Retangulo, Retangulos
  <2> QED  BY <2>2, <2>3 DEF HUD
<1> HIDE DEF b, p, m, h
<1> DEFINE d == ((b \o p) \o m) \o h
<1>7. /\ d \in Seq(Retangulos) /\ Len(d) = Len(m) + 11
      /\ \A k \in 1 .. 6 : d[k] = b[k]
      /\ d[7] = p[1]
      /\ \A k \in 1 .. Len(m) : d[7 + k] = m[k]
      /\ \A k \in 1 .. 4 : d[7 + Len(m) + k] = h[k]
  <2>1. /\ b \in Seq(Retangulos) /\ p \in Seq(Retangulos) /\ m \in Seq(Retangulos)
        /\ h \in Seq(Retangulos) /\ Len(b) = 6 /\ Len(p) = 1 /\ Len(h) = 4
    BY <1>3, <1>4, <1>5, <1>6
  <2>2. Partes(Retangulos, b, p, m, h, d)
    BY <2>1, QuatroPartes
  <2> QED  BY <2>2 DEF Partes
<1> HIDE DEF d
<1>8. DOMAIN d = 1 .. n + 11
  BY <1>5, <1>7
<1>9. \A k \in 1 .. 7 : d[k] = Fixas(tela)[k]
  BY <1>3, <1>4, <1>7
<1>10. \A k \in 1 .. n : d[7 + k] = Carta(tela, k)
  BY <1>5, <1>7
<1>11. \A k \in 1 .. 4 : d[7 + n + k] = LinhaDoHUD(k)
  BY <1>5, <1>6, <1>7
<1> QED  BY <1>0, <1>8, <1>9, <1>10, <1>11 DEF d

-----------------------------------------------------------------------------
(* Where they are.                                                            *)

\* The rows of r are from a to b - 1.
Faixa(r, a, b) == a <= r.y /\ r.y + r.height <= b

LEMMA FaixasSeparam ==
    ASSUME NEW r \in Retangulos, NEW s \in Retangulos, NEW a \in Int, NEW b \in Int,
           NEW e \in Int, NEW f \in Int, Faixa(r, a, b), Faixa(s, e, f),
           b <= e \/ f <= a
    PROVE  Separados(r, s)
BY DEF Faixa, Separados, Retangulos

LEMMA OndeFixas ==
    ASSUME NEW tela \in Telas, ValidarTela(tela), NEW k \in 1 .. 7
    PROVE  LET r == Fixas(tela)[k]
           IN  /\ r \in Retangulos /\ Dentro(r, Interior(tela))
               /\ k = 1 => Faixa(r, 10, 11)
               /\ k = 2 => Faixa(r, tela.height - 10, tela.height - 9)
               /\ k > 2 => Faixa(r, 15, tela.height - 14)
<1> DEFINE w == tela.width
           h == tela.height
           pa == (w - 35) \div 2
           pb == (h - 25) \div 2
<1>1. w \in Int /\ h \in Int /\ w >= 150 /\ h >= 40
  BY DEF Telas, ValidarTela
<1>2. /\ pa \in Int /\ 2 * pa <= w - 35 /\ w - 35 < 2 * pa + 2
      /\ pb \in Int /\ 2 * pb <= h - 25 /\ h - 25 < 2 * pb + 2
  BY <1>1, Quocientes
<1>3. Fixas(tela) =
        <<Retangulo(1, 10, w - 2, 1), Retangulo(1, h - 10, w - 2, 1),
          Retangulo(35, 15, w - 69, 1), Retangulo(35, h - 15, w - 69, 1),
          Retangulo(35, 16, 1, h - 31), Retangulo(w - 35, 16, 1, h - 31),
          Retangulo(15 + pa, 10 + pb, 5, 5)>>
  BY DEF Fixas
<1>4. Interior(tela) = Retangulo(1, 1, w - 2, h - 2)
  BY DEF Interior
<1> HIDE DEF w, h, pa, pb
<1>5. k = 1 \/ k = 2 \/ k = 3 \/ k = 4 \/ k = 5 \/ k = 6 \/ k = 7
  OBVIOUS
<1> USE DEF Dentro, Faixa, Retangulo, Retangulos
<1>6. CASE k = 1
  BY <1>1, <1>3, <1>4, <1>6
<1>7. CASE k = 2
  BY <1>1, <1>3, <1>4, <1>7 DEF h
<1>8. CASE k = 3
  BY <1>1, <1>3, <1>4, <1>8 DEF h
<1>9. CASE k = 4
  BY <1>1, <1>3, <1>4, <1>9 DEF h
<1>10. CASE k = 5
  BY <1>1, <1>3, <1>4, <1>10 DEF h
<1>11. CASE k = 6
  BY <1>1, <1>3, <1>4, <1>11 DEF h
<1>12. CASE k = 7
  BY <1>1, <1>2, <1>3, <1>4, <1>12 DEF h
<1> QED  BY <1>5, <1>6, <1>7, <1>8, <1>9, <1>10, <1>11, <1>12

LEMMA OndeCartas ==
    ASSUME NEW tela \in Telas, ValidarTela(tela), NEW k \in 1 .. MAX_QTD_CARTAS_JOGADOR
    PROVE  LET r == Carta(tela, k)
           IN  /\ r \in Retangulos /\ Dentro(r, Interior(tela))
               /\ Faixa(r, tela.height - 8, tela.height - 3)
<1>1. tela.width \in Int /\ tela.height \in Int /\ tela.width >= 150 /\ tela.height >= 40
  BY DEF Telas, ValidarTela
<1> DEFINE c == (tela.width - 2) \div 10
<1>2. c \in Int /\ 10 * c <= tela.width - 2 /\ tela.width - 2 < 10 * c + 10
  BY <1>1, Quocientes
<1>3. k \in Int /\ 1 <= k /\ k <= 16
  BY DEF MAX_QTD_CARTAS_JOGADOR
<1>4. Carta(tela, k) = Retangulo(1 + c + (k - 1) * 7, tela.height - 8, 5, 5)
  BY DEF Carta
<1> HIDE DEF c
<1>5. 1 <= 1 + c + (k - 1) * 7 /\ 1 + c + (k - 1) * 7 + 5 <= 1 + (tela.width - 2)
  BY <1>1, <1>2, <1>3
<1> QED
  BY <1>1, <1>2, <1>3, <1>4, <1>5 DEF Retangulo, Retangulos, Dentro, Faixa, Interior

LEMMA OndeHUD ==
    ASSUME NEW tela \in Telas, ValidarTela(tela), NEW k \in 1 .. 4
    PROVE  LET r == LinhaDoHUD(k)
           IN  /\ r \in Retangulos /\ Dentro(r, Interior(tela)) /\ Faixa(r, 2 * k, 2 * k + 1)
<1>1. tela.width \in Int /\ tela.height \in Int /\ tela.width >= 150 /\ tela.height >= 40
  BY DEF Telas, ValidarTela
<1>2. k = 1 \/ k = 2 \/ k = 3 \/ k = 4
  OBVIOUS
<1>3. LinhasDoHUD[k] \in Int /\ 1 <= LinhasDoHUD[k] /\ LinhasDoHUD[k] <= 69
  BY <1>2 DEF LinhasDoHUD
<1>4. LinhaDoHUD(k) = Retangulo(3, 2 + 2 * (k - 1), LinhasDoHUD[k], 1)
  BY DEF LinhaDoHUD
<1> QED
  BY <1>1, <1>3, <1>4 DEF Retangulo, Retangulos, Dentro, Faixa, Interior

-----------------------------------------------------------------------------
(* No two of them overlap.                                                    *)

LEMMA FixasSeparadas ==
    ASSUME NEW tela \in Telas, ValidarTela(tela),
           NEW i \in 1 .. 7, NEW j \in 1 .. 7, i < j
    PROVE  Separados(Fixas(tela)[i], Fixas(tela)[j])
<1> DEFINE w == tela.width
           h == tela.height
           pa == (w - 35) \div 2
           pb == (h - 25) \div 2
<1>1. w \in Int /\ h \in Int /\ w >= 150 /\ h >= 40
  BY DEF Telas, ValidarTela
<1>2. /\ pa \in Int /\ 2 * pa <= w - 35 /\ w - 35 < 2 * pa + 2
      /\ pb \in Int /\ 2 * pb <= h - 25 /\ h - 25 < 2 * pb + 2
  BY <1>1, Quocientes
<1>3. /\ Fixas(tela)[3] = Retangulo(35, 15, w - 69, 1)
      /\ Fixas(tela)[4] = Retangulo(35, h - 15, w - 69, 1)
      /\ Fixas(tela)[5] = Retangulo(35, 16, 1, h - 31)
      /\ Fixas(tela)[6] = Retangulo(w - 35, 16, 1, h - 31)
      /\ Fixas(tela)[7] = Retangulo(15 + pa, 10 + pb, 5, 5)
  BY DEF Fixas
<1> HIDE DEF w, h, pa, pb
<1>4. CASE i = 1 \/ i = 2
  <2>1. Fixas(tela)[i] \in Retangulos /\ Fixas(tela)[j] \in Retangulos
    BY OndeFixas
  <2>2. \/ Faixa(Fixas(tela)[i], 10, 11) /\ i = 1
        \/ Faixa(Fixas(tela)[i], h - 10, h - 9) /\ i = 2
    BY <1>4, OndeFixas DEF h
  <2>3. \/ Faixa(Fixas(tela)[j], h - 10, h - 9) /\ j = 2
        \/ Faixa(Fixas(tela)[j], 15, h - 14) /\ j > 2
    BY <1>4, OndeFixas DEF h
  <2> QED  BY <1>1, <2>1, <2>2, <2>3 DEF Faixa, Separados, Retangulos
<1> USE DEF Separados, Retangulo
<1>5. CASE i = 3
  BY <1>1, <1>2, <1>3, <1>5
<1>6. CASE i = 4
  BY <1>1, <1>2, <1>3, <1>6
<1>7. CASE i = 5
  BY <1>1, <1>2, <1>3, <1>7
<1>8. CASE i = 6
  BY <1>1, <1>2, <1>3, <1>8
<1> QED  BY <1>4, <1>5, <1>6, <1>7, <1>8

LEMMA CartasSeparadas ==
    ASSUME NEW tela \in Telas, NEW i \in Nat, NEW j \in Nat, i < j
    PROVE  Separados(Carta(tela, i), Carta(tela, j))
<1> DEFINE c == (tela.width - 2) \div 10
<1>1. c \in Int
  BY Quocientes DEF Telas
<1>2. /\ Carta(tela, i) = Retangulo(1 + c + (i - 1) * 7, tela.height - 8, 5, 5)
      /\ Carta(tela, j) = Retangulo(1 + c + (j - 1) * 7, tela.height - 8, 5, 5)
  BY DEF Carta
<1> HIDE DEF c
<1>3. 1 + c + (i - 1) * 7 + 5 <= 1 + c + (j - 1) * 7
  BY <1>1
<1> QED  BY <1>2, <1>3 DEF Retangulo, Separados

(* On a screen that validarTela lets pass, and with any hand that fits the    *)
(* array of a message, nothing that one round of the main loop draws is cut   *)
(* off, lies on the border or lies on another thing, but for the status line, *)
(* which lies on the line under the top zone.                                 *)
THEOREM DesenhoSempreCabe ==
    ASSUME NEW tela \in Telas, ValidarTela(tela), NEW n \in 0 .. MAX_QTD_CARTAS_JOGADOR
    PROVE  TudoCabe(tela, n)
<1> DEFINE d == Desenho(tela, n)
           h == tela.height
           status == DrawStatus(CreateBoardLayout(tela).top)
<1>1. h \in Int /\ h >= 40 /\ n \in Nat /\ n <= MAX_QTD_CARTAS_JOGADOR
  BY DEF Telas, ValidarTela, MAX_QTD_CARTAS_JOGADOR
<1>2. /\ DOMAIN d = 1 .. n + 11
      /\ \A k \in 1 .. 7 : d[k] = Fixas(tela)[k]
      /\ \A k \in 1 .. n : d[7 + k] = Carta(tela, k)
      /\ \A k \in 1 .. 4 : d[7 + n + k] = LinhaDoHUD(k)
  BY <1>1, Pecas
<1>3. /\ status = Retangulo(3, 10, 16, 1) /\ status \in Retangulos
      /\ Faixa(status, 10, 11) /\ Dentro(status, Interior(tela))
  <2>1. tela.width \in Int /\ tela.height \in Int /\ tela.width >= 150
    BY DEF Telas, ValidarTela
  <2>2. status = Retangulo(3, 10, 16, 1)
    <3>1. /\ CreateBoardLayout(tela).top = Retangulo(1, 1, tela.width - 1, 10)
          /\ Retangulo(1, 1, tela.width - 1, 10).x = 1
          /\ Retangulo(1, 1, tela.width - 1, 10).y = 1
      BY Medidas DEF Retangulo
    <3> QED  BY <3>1 DEF DrawStatus
  <2> QED
    BY <1>1, <2>1, <2>2 DEF Retangulo, Retangulos, Faixa, Dentro, Interior
<1> HIDE DEF d, status
<1> DEFINE fixa(i) == i \in 1 .. 7
           carta(i) == i \in 8 .. 7 + n
           linha(i) == i \in 8 + n .. 11 + n
<1>4. ASSUME NEW i \in DOMAIN d
      PROVE  fixa(i) \/ carta(i) \/ linha(i)
  <2>1. i \in 1 .. n + 11
    BY <1>2
  <2> QED  BY <1>1, <2>1
<1>5. ASSUME NEW i, fixa(i)
      PROVE  /\ d[i] \in Retangulos /\ Dentro(d[i], Interior(tela))
             /\ Faixa(d[i], 10, 11) \/ Faixa(d[i], 15, h - 14) \/ Faixa(d[i], h - 10, h - 9)
             /\ i > 1 => Faixa(d[i], 15, h - 14) \/ Faixa(d[i], h - 10, h - 9)
  BY <1>2, <1>5, OndeFixas
<1>6. ASSUME NEW i, carta(i)
      PROVE  /\ d[i] \in Retangulos /\ Dentro(d[i], Interior(tela))
             /\ Faixa(d[i], h - 8, h - 3) /\ d[i] = Carta(tela, i - 7) /\ i - 7 \in Nat
  <2>1. i - 7 \in 1 .. n /\ 7 + (i - 7) = i /\ i - 7 \in 1 .. MAX_QTD_CARTAS_JOGADOR
    BY <1>1, <1>6 DEF MAX_QTD_CARTAS_JOGADOR
  <2>2. d[7 + (i - 7)] = Carta(tela, i - 7)
    BY <1>2, <2>1
  <2> QED  BY <2>1, <2>2, OndeCartas
<1>7. ASSUME NEW i, linha(i)
      PROVE  /\ d[i] \in Retangulos /\ Dentro(d[i], Interior(tela))
             /\ Faixa(d[i], 2 * (i - 7 - n), 2 * (i - 7 - n) + 1)
             /\ i - 7 - n \in 1 .. 4
  <2>1. i - 7 - n \in 1 .. 4 /\ 7 + n + (i - 7 - n) = i
    BY <1>1, <1>7
  <2>2. d[7 + n + (i - 7 - n)] = LinhaDoHUD(i - 7 - n)
    BY <1>2, <2>1
  <2> QED  BY <2>1, <2>2, OndeHUD
<1> HIDE DEF h
<1>8. \A i \in DOMAIN d : Dentro(d[i], Interior(tela))
  BY <1>4, <1>5, <1>6, <1>7
<1>9. ASSUME NEW i \in DOMAIN d, i > 1
      PROVE  Separados(status, d[i])
  <2>1. CASE fixa(i)
    BY <1>1, <1>3, <1>5, <1>9, <2>1 DEF Faixa, Separados, Retangulos
  <2>2. CASE carta(i)
    BY <1>1, <1>3, <1>6, <2>2 DEF Faixa, Separados, Retangulos
  <2>3. CASE linha(i)
    BY <1>1, <1>3, <1>7, <2>3 DEF Faixa, Separados, Retangulos
  <2> QED  BY <1>4, <2>1, <2>2, <2>3
<1>10. ASSUME NEW i \in DOMAIN d, NEW j \in DOMAIN d, i < j
       PROVE  Separados(d[i], d[j])
  <2>0. i \in Int /\ j \in Int
    BY <1>1, <1>2
  <2>1. CASE fixa(i) /\ fixa(j)
    <3>1. d[i] = Fixas(tela)[i] /\ d[j] = Fixas(tela)[j]
      BY <1>2, <2>1
    <3> QED  BY <1>10, <2>1, <3>1, FixasSeparadas
  <2>2. CASE fixa(i) /\ carta(j)
    BY <1>1, <1>5, <1>6, <2>2 DEF Faixa, Separados, Retangulos
  <2>3. CASE fixa(i) /\ linha(j)
    BY <1>1, <1>5, <1>7, <2>3 DEF Faixa, Separados, Retangulos
  <2>4. CASE carta(i) /\ carta(j)
    <3>1. i - 7 < j - 7
      BY <1>10, <2>0
    <3> QED  BY <1>6, <2>4, <3>1, CartasSeparadas
  <2>5. CASE carta(i) /\ linha(j)
    BY <1>1, <1>6, <1>7, <2>5 DEF Faixa, Separados, Retangulos
  <2>6. CASE linha(i) /\ linha(j)
    BY <1>1, <1>7, <1>10, <2>0, <2>6 DEF Faixa, Separados, Retangulos
  <2>7. (carta(i) => ~fixa(j)) /\ (linha(i) => ~fixa(j) /\ ~carta(j))
    BY <1>1, <1>10, <2>0
  <2> QED  BY <1>4, <2>1, <2>2, <2>3, <2>4, <2>5, <2>6, <2>7
<1>11. \A i, j \in DOMAIN d : i < j => Separados(d[i], d[j])
  BY <1>10
<1>12. \A i \in DOMAIN d : i > 1 => Separados(status, d[i])
  BY <1>9
<1> QED  BY <1>3, <1>8, <1>11, <1>12 DEF TudoCabe, d, status
=============================================================================
