--------------------------- MODULE UnoRenderProofs ---------------------------
(* The text of renderScreen, for buffers of every size and every colour: the  *)
(* terminal that reads it shows the buffer cell for cell. The three recursive *)
(* functions of UnoTela are shown to exist and to unfold; the rest relates,   *)
(* after each cell and each row, the colours that renderScreen remembers with *)
(* those that the terminal has (Segue).                                       *)
EXTENDS UnoTela, SequenceTheorems, WellFoundedInduction, TLAPS

(* A set of numbers with 0 and the successor of each of its members is Nat:   *)
(* the smallest number outside would have a predecessor outside.              *)
LEMMA TodosOsNaturais ==
    ASSUME NEW T, T \subseteq Nat, 0 \in T, \A n \in T : n + 1 \in T
    PROVE  T = Nat
<1> DEFINE Menor == {ss \in Nat \X Nat : ss[1] < ss[2]}
           F == Nat \ T
<1>1. IsWellFoundedOn(Menor, Nat)
  BY NatLessThanWellFounded DEF OpToRel
<1> SUFFICES ASSUME F # {} PROVE FALSE
  OBVIOUS
<1>2. PICK x \in F : \A y \in F : <<y, x>> \notin Menor
  <2>1. F \subseteq Nat
    OBVIOUS
  <2> HIDE DEF F, Menor
  <2> QED  BY <1>1, <2>1, WFMin
<1>3. x # 0 /\ x \in Nat /\ x - 1 \in Nat /\ x - 1 < x
  OBVIOUS
<1>4. <<x - 1, x>> \in Menor
  BY <1>3
<1>5. x - 1 \notin F
  BY <1>2, <1>4
<1>6. x - 1 \in T
  BY <1>3, <1>5
<1>7. (x - 1) + 1 \in T
  BY <1>6
<1> QED  BY <1>3, <1>7

-----------------------------------------------------------------------------
(* The terminal: what it has after the first n items of a text.               *)

EstadoT(l, f, b) == [linhas |-> l, fg |-> f, bg |-> b]

InicioT == EstadoT(<< << >> >>, COLOR_DEFAULT, COLOR_DEFAULT)

PassoLido(lido, texto, n) ==
    lido = [k \in 0 .. n |->
              IF k = 0 THEN InicioT ELSE TerminalLe(lido[k - 1], texto[k])]

Lido(texto) == CHOOSE lido : PassoLido(lido, texto, Len(texto))

LEMMA LidoExiste ==
    ASSUME NEW texto, Len(texto) \in Nat
    PROVE  PassoLido(Lido(texto), texto, Len(texto))
<1> DEFINE T == {n \in Nat : \E f : PassoLido(f, texto, n)}
<1>1. 0 \in T
  <2>1. PassoLido([k \in 0 .. 0 |-> InicioT], texto, 0)
    BY DEF PassoLido
  <2> QED  BY <2>1
<1>2. ASSUME NEW n \in T
      PROVE  n + 1 \in T
  <2>1. PICK f : PassoLido(f, texto, n)
    OBVIOUS
  <2> DEFINE g == [k \in 0 .. n + 1 |->
                     IF k = n + 1 THEN TerminalLe(f[n], texto[n + 1]) ELSE f[k]]
  <2>2. \A k \in 0 .. n + 1 :
           g[k] = IF k = 0 THEN InicioT ELSE TerminalLe(g[k - 1], texto[k])
    BY <2>1 DEF PassoLido
  <2>3. PassoLido(g, texto, n + 1)
    BY <2>2 DEF PassoLido
  <2> QED  BY <2>3
<1>3. T = Nat
  <2> HIDE DEF T
  <2>1. T \subseteq Nat
    BY DEF T
  <2> QED  BY <1>1, <1>2, <2>1, TodosOsNaturais
<1>4. Len(texto) \in T
  BY <1>3
<1> QED  BY <1>4 DEF Lido

LEMMA LidoPasso ==
    ASSUME NEW texto, Len(texto) \in Nat
    PROVE  /\ Terminal(texto) = Lido(texto)[Len(texto)]
           /\ Lido(texto)[0] = InicioT
           /\ \A k \in 1 .. Len(texto) :
                 Lido(texto)[k] = TerminalLe(Lido(texto)[k - 1], texto[k])
<1>1. Terminal(texto) = Lido(texto)[Len(texto)]
  BY DEF Terminal, Lido, PassoLido, InicioT, EstadoT
<1>2. \A k \in 0 .. Len(texto) :
         Lido(texto)[k] = IF k = 0 THEN InicioT
                          ELSE TerminalLe(Lido(texto)[k - 1], texto[k])
  BY LidoExiste DEF PassoLido
<1> QED  BY <1>1, <1>2

Itens == {Reset, NovaLinha} \cup {Cores(f, b) : f, b \in Nat}
            \cup {Caractere(c) : c \in STRING}

Textos == Seq(Itens)

LEMMA TextoVazio == Terminal(<< >>) = InicioT
<1>1. Len(<< >>) = 0
  OBVIOUS
<1> QED  BY <1>1, LidoPasso

(* One item more is one more step of the terminal.                            *)
LEMMA TextoMaisUm ==
    ASSUME NEW texto \in Textos, NEW i \in Itens
    PROVE  Terminal(Append(texto, i)) = TerminalLe(Terminal(texto), i)
<1> DEFINE u == Append(texto, i)
           m == Len(texto)
           T == {n \in Nat : n <= m => Lido(u)[n] = Lido(texto)[n]}
<1>1. /\ m \in Nat /\ Len(u) = m + 1 /\ u[m + 1] = i
      /\ \A k \in 1 .. m : u[k] = texto[k]
  BY DEF Textos
<1> HIDE DEF u, m
<1>2. /\ Terminal(texto) = Lido(texto)[m] /\ Lido(texto)[0] = InicioT
      /\ \A k \in 1 .. m : Lido(texto)[k] = TerminalLe(Lido(texto)[k - 1], texto[k])
  BY <1>1, LidoPasso DEF m
<1>3. /\ Terminal(u) = Lido(u)[m + 1] /\ Lido(u)[0] = InicioT
      /\ \A k \in 1 .. m + 1 : Lido(u)[k] = TerminalLe(Lido(u)[k - 1], u[k])
  BY <1>1, LidoPasso
<1>4. 0 \in T
  BY <1>2, <1>3
<1>5. ASSUME NEW n \in T
      PROVE  n + 1 \in T
  <2>1. SUFFICES ASSUME n + 1 <= m
                 PROVE  Lido(u)[n + 1] = Lido(texto)[n + 1]
    OBVIOUS
  <2>2. Lido(u)[n] = Lido(texto)[n] /\ n + 1 \in 1 .. m /\ n + 1 \in 1 .. m + 1
    BY <1>1, <2>1
  <2>3. (n + 1) - 1 = n
    OBVIOUS
  <2> QED  BY <1>1, <1>2, <1>3, <2>2, <2>3
<1>6. m \in T
  <2> HIDE DEF T
  <2>1. T \subseteq Nat
    BY DEF T
  <2> QED  BY <1>1, <1>4, <1>5, <2>1, TodosOsNaturais
<1>7. Lido(u)[m] = Lido(texto)[m]
  BY <1>1, <1>6
<1>8. Lido(u)[m + 1] = TerminalLe(Lido(u)[m], i)
  <2>1. m + 1 \in 1 .. m + 1 /\ (m + 1) - 1 = m
    BY <1>1
  <2> QED  BY <1>1, <1>3, <2>1
<1> QED  BY <1>2, <1>3, <1>7, <1>8 DEF u

(* What the terminal does with each kind of item.                             *)
LEMMA TerminalLeCores ==
    ASSUME NEW l, NEW f, NEW b, NEW x, NEW y
    PROVE  /\ TerminalLe(EstadoT(l, f, b), Reset) = EstadoT(l, COLOR_DEFAULT, COLOR_DEFAULT)
           /\ TerminalLe(EstadoT(l, f, b), Cores(x, y)) = EstadoT(l, x, y)
<1> DEFINE t == EstadoT(l, f, b)
           c == Cores(x, y)
<1>1. Reset[1] # "cores" /\ Reset # NovaLinha
  BY DEF Reset, NovaLinha
<1>2. c # Reset /\ c[1] = "cores" /\ c[2] = x /\ c[3] = y /\ c # NovaLinha
  BY DEF Cores, Reset, NovaLinha
<1>3. ASSUME NEW u, NEW v
      PROVE  [t EXCEPT !.fg = u, !.bg = v] = EstadoT(l, u, v)
  <2> DEFINE w == [t EXCEPT !.fg = u]
  <2>1. w = EstadoT(l, u, b)
    BY DEF EstadoT
  <2>2. [w EXCEPT !.bg = v] = EstadoT(l, u, v)
    <3> HIDE DEF w, t
    <3> QED  BY <2>1 DEF EstadoT
  <2> QED  BY <2>2
<1> HIDE DEF t, c
<1>4. TerminalLe(t, Reset) = [t EXCEPT !.fg = COLOR_DEFAULT, !.bg = COLOR_DEFAULT]
  BY <1>1, Zenon DEF TerminalLe
<1>5. TerminalLe(t, c) = [t EXCEPT !.fg = c[2], !.bg = c[3]]
  BY <1>2, Zenon DEF TerminalLe
<1> QED  BY <1>2, <1>3, <1>4, <1>5 DEF t, c

LEMMA TerminalLeLinha ==
    ASSUME NEW l, NEW f, NEW b
    PROVE  TerminalLe(EstadoT(l, f, b), NovaLinha) = EstadoT(Append(l, << >>), f, b)
<1>1. NovaLinha # Reset /\ NovaLinha[1] # "cores"
  BY DEF NovaLinha, Reset
<1> QED  BY <1>1 DEF TerminalLe, EstadoT

(* Changing the last element is putting another one in its place.             *)
LEMMA TrocaUltimo ==
    ASSUME NEW S, NEW l \in Seq(S), NEW x \in S, NEW y \in S
    PROVE  LET a == Append(l, x)
           IN  a[Len(a)] = x /\ [a EXCEPT ![Len(a)] = y] = Append(l, y)
<1> DEFINE a == Append(l, x)
           e == [a EXCEPT ![Len(a)] = y]
           d == Append(l, y)
<1>1. /\ a \in Seq(S) /\ Len(l) \in Nat /\ Len(a) = Len(l) + 1
      /\ \A i \in 1 .. Len(l) : a[i] = l[i]
      /\ a[Len(a)] = x
  OBVIOUS
<1>2. /\ d \in Seq(S) /\ Len(d) = Len(l) + 1
      /\ \A i \in 1 .. Len(l) : d[i] = l[i]
      /\ d[Len(l) + 1] = y
  OBVIOUS
<1> HIDE DEF a, d
<1>3. /\ e \in Seq(S) /\ Len(e) = Len(a)
      /\ \A j \in 1 .. Len(a) : e[j] = IF j = Len(a) THEN y ELSE a[j]
  <2>1. Len(a) \in 1 .. Len(a)
    BY <1>1
  <2> QED  BY <1>1, <2>1, ExceptSeq
<1> HIDE DEF e
<1>4. \A j \in 1 .. Len(e) : e[j] = d[j]
  <2>1. SUFFICES ASSUME NEW j \in 1 .. Len(l) + 1
                 PROVE  e[j] = d[j]
    BY <1>1, <1>3
  <2>2. CASE j = Len(l) + 1
    BY <1>1, <1>2, <1>3, <2>2
  <2>3. CASE j \in 1 .. Len(l)
    BY <1>1, <1>2, <1>3, <2>3
  <2> QED  BY <1>1, <2>2, <2>3
<1>5. e = d
  BY <1>1, <1>2, <1>3, <1>4, SeqEqual
<1> QED  BY <1>1, <1>5 DEF a, d, e

LEMMA TerminalLeCaractere ==
    ASSUME NEW l \in Seq(Seq(Celula)), NEW linha \in Seq(Celula), NEW f \in Nat, NEW b \in Nat,
           NEW c \in STRING
    PROVE  TerminalLe(EstadoT(Append(l, linha), f, b), Caractere(c)) =
             EstadoT(Append(l, Append(linha, [character |-> c, foreground |-> f,
                                              background |-> b])), f, b)
<1> DEFINE cell == [character |-> c, foreground |-> f, background |-> b]
           a == Append(l, linha)
           d == Append(linha, cell)
<1>1. /\ Caractere(c) # Reset /\ Caractere(c)[1] # "cores" /\ Caractere(c) # NovaLinha
      /\ Caractere(c)[2] = c
  BY DEF Caractere, Reset, NovaLinha
<1>2. cell \in Celula
  BY DEF Celula
<1> HIDE DEF cell
<1>3. a[Len(a)] = linha /\ [a EXCEPT ![Len(a)] = d] = Append(l, d)
  <2>1. d \in Seq(Celula)
    BY <1>2
  <2> HIDE DEF d
  <2> QED  BY <2>1, TrocaUltimo
<1>4. TerminalLe(EstadoT(a, f, b), Caractere(c)) =
         EstadoT([a EXCEPT ![Len(a)] = Append(a[Len(a)], cell)], f, b)
  BY <1>1 DEF TerminalLe, EstadoT, cell
<1> QED  BY <1>3, <1>4 DEF cell

-----------------------------------------------------------------------------
(* renderScreen and the terminal side by side.                                *)

\* The foreground that the terminal is given for the colours of a cell.
FgMostrado(fg, bg) ==
    IF fg = COLOR_DEFAULT /\ bg # COLOR_DEFAULT THEN COLOR_WHITE ELSE fg

Memorias ==
    [saida : Textos, lastFg : Nat \cup {Nenhuma}, lastBg : Nat \cup {Nenhuma}]

(* After the text of r the terminal shows the rows l, and it has the colours  *)
(* that r remembers, if r remembers any.                                      *)
Segue(r, l) ==
    /\ r \in Memorias
    /\ \E f, b \in Nat :
         /\ Terminal(r.saida) = EstadoT(l, f, b)
         /\ r.lastFg = Nenhuma \/ (f = FgMostrado(r.lastFg, r.lastBg) /\ b = r.lastBg)

LEMMA AparenciaDaCelula ==
    ASSUME NEW cell \in Celula
    PROVE  /\ Aparencia(cell) \in Celula
           /\ Aparencia(cell) =
                [character |-> cell.character,
                 foreground |-> FgMostrado(cell.foreground, cell.background),
                 background |-> cell.background]
  BY DEF Aparencia, Celula, FgMostrado, COLOR_WHITE, COLOR_DEFAULT

\* Adding a sequence of one item is appending it.
LEMMA MaisUmItem ==
    ASSUME NEW texto \in Textos, NEW i \in Itens
    PROVE  texto \o <<i>> = Append(texto, i) /\ Append(texto, i) \in Textos
<1>1. texto \in Seq(Itens) /\ <<i>> \in Seq(Itens)
  BY DEF Textos
<1>2. Append(texto, i) \in Seq(Itens)
  BY <1>1
<1>3. texto \o <<i>> = Append(texto, i)
  BY <1>1
<1> QED  BY <1>2, <1>3 DEF Textos

\* The text of a cell: at most one escape sequence, and the character.
LEMMA TextoDaCelula ==
    ASSUME NEW r \in Memorias, NEW cell \in Celula
    PROVE  LET mesmas == cell.foreground = r.lastFg /\ cell.background = r.lastBg
               nulas  == cell.foreground = COLOR_DEFAULT /\ cell.background = COLOR_DEFAULT
               cores  == Cores(FgMostrado(cell.foreground, cell.background),
                               cell.background)
               novas  == IF mesmas THEN r.saida
                         ELSE Append(r.saida, IF nulas THEN Reset ELSE cores)
               c == RenderCell(r, cell)
           IN  /\ novas \in Textos
               /\ c = [saida |-> Append(novas, Caractere(cell.character)),
                       lastFg |-> cell.foreground, lastBg |-> cell.background]
               /\ c \in Memorias
<1> DEFINE mesmas == cell.foreground = r.lastFg /\ cell.background = r.lastBg
           nulas  == cell.foreground = COLOR_DEFAULT /\ cell.background = COLOR_DEFAULT
           cores  == Cores(FgMostrado(cell.foreground, cell.background), cell.background)
           item   == IF nulas THEN Reset ELSE cores
           novas  == IF mesmas THEN r.saida ELSE Append(r.saida, item)
           car    == Caractere(cell.character)
           seq    == IF mesmas THEN << >> ELSE <<item>>
<1>1. r.saida \in Textos /\ cell.character \in STRING
      /\ cell.foreground \in Nat /\ cell.background \in Nat
  BY DEF Memorias, Celula
<1>2. item \in Itens /\ car \in Itens
  <2>1. FgMostrado(cell.foreground, cell.background) \in Nat
    BY <1>1 DEF FgMostrado, COLOR_WHITE
  <2> QED  BY <1>1, <2>1 DEF Itens
<1>3. RenderCell(r, cell) =
        [saida |-> r.saida \o seq \o <<car>>,
         lastFg |-> cell.foreground, lastBg |-> cell.background]
  <2>1. ~nulas => FgMostrado(cell.foreground, cell.background) =
                    IF cell.foreground = COLOR_DEFAULT THEN COLOR_WHITE
                                                       ELSE cell.foreground
    BY DEF FgMostrado
  <2>2. seq = IF mesmas THEN << >> ELSE IF nulas THEN <<Reset>>
              ELSE <<Cores(IF cell.foreground = COLOR_DEFAULT THEN COLOR_WHITE
                                                              ELSE cell.foreground,
                           cell.background)>>
    BY <2>1
  <2> HIDE DEF seq, car
  <2> QED  BY <2>2 DEF RenderCell, car
<1> HIDE DEF item, car
<1>4. novas \in Textos /\ r.saida \o seq = novas
  <2>1. CASE mesmas
    BY <1>1, <2>1 DEF Textos
  <2>2. CASE ~mesmas
    BY <1>1, <1>2, <2>2, MaisUmItem
  <2> QED  BY <2>1, <2>2
<1> HIDE DEF novas, seq
<1>5. r.saida \o seq \o <<car>> = Append(novas, car) /\ Append(novas, car) \in Textos
  BY <1>2, <1>4, MaisUmItem
<1>6. RenderCell(r, cell) = [saida |-> Append(novas, car), lastFg |-> cell.foreground,
                             lastBg |-> cell.background]
  BY <1>3, <1>5
<1>7. RenderCell(r, cell) \in Memorias
  BY <1>1, <1>5, <1>6 DEF Memorias
<1> QED  BY <1>4, <1>6, <1>7 DEF novas, car, item

(* A cell adds its appearance to the last row, whatever came before it.       *)
LEMMA UmaCelula ==
    ASSUME NEW l \in Seq(Seq(Celula)), NEW linha \in Seq(Celula), NEW r,
           Segue(r, Append(l, linha)), NEW cell \in Celula
    PROVE  Segue(RenderCell(r, cell), Append(l, Append(linha, Aparencia(cell))))
<1> DEFINE fg == FgMostrado(cell.foreground, cell.background)
           bg == cell.background
           mesmas == cell.foreground = r.lastFg /\ cell.background = r.lastBg
           nulas  == cell.foreground = COLOR_DEFAULT /\ cell.background = COLOR_DEFAULT
           item   == IF nulas THEN Reset ELSE Cores(fg, bg)
           novas  == IF mesmas THEN r.saida ELSE Append(r.saida, item)
           car    == Caractere(cell.character)
           c == RenderCell(r, cell)
           a == Append(l, linha)
<1>1. r \in Memorias
  BY DEF Segue
<1>2. PICK f \in Nat, b \in Nat :
         /\ Terminal(r.saida) = EstadoT(a, f, b)
         /\ r.lastFg = Nenhuma \/ (f = FgMostrado(r.lastFg, r.lastBg) /\ b = r.lastBg)
  BY DEF Segue
<1>3. /\ novas \in Textos /\ c \in Memorias
      /\ c = [saida |-> Append(novas, car), lastFg |-> cell.foreground, lastBg |-> bg]
  BY <1>1, TextoDaCelula
<1>4. /\ cell.character \in STRING /\ cell.foreground \in Nat /\ bg \in Nat /\ fg \in Nat
      /\ r.saida \in Textos
  BY <1>1 DEF Celula, Memorias, FgMostrado, COLOR_WHITE
<1>5. item \in Itens /\ car \in Itens
  BY <1>4 DEF Itens
<1>6. Terminal(novas) = EstadoT(a, fg, bg)
  <2>1. CASE mesmas
    <3>1. r.lastFg # Nenhuma
      BY <1>4, <2>1 DEF Nenhuma
    <3> QED  BY <1>2, <2>1, <3>1
  <2>2. CASE ~mesmas
    <3>1. Terminal(novas) = TerminalLe(EstadoT(a, f, b), item)
      <4> HIDE DEF item
      <4> QED  BY <1>2, <1>4, <1>5, <2>2, TextoMaisUm
    <3>2. CASE nulas
      <4>1. fg = COLOR_DEFAULT /\ bg = COLOR_DEFAULT
        BY <3>2 DEF FgMostrado
      <4> QED  BY <3>1, <3>2, <4>1, TerminalLeCores
    <3>3. CASE ~nulas
      BY <3>1, <3>3, TerminalLeCores
    <3> QED  BY <3>2, <3>3
  <2> QED  BY <2>1, <2>2
<1> HIDE DEF novas, item
<1>7. Terminal(Append(novas, car)) = TerminalLe(EstadoT(a, fg, bg), car)
  BY <1>3, <1>5, <1>6, TextoMaisUm
<1>8. Terminal(Append(novas, car)) =
        EstadoT(Append(l, Append(linha, Aparencia(cell))), fg, bg)
  <2>1. Aparencia(cell) = [character |-> cell.character, foreground |-> fg,
                           background |-> bg]
    BY AparenciaDaCelula
  <2> HIDE DEF fg, bg
  <2>2. \A x, y \in Nat, ch \in STRING :
           TerminalLe(EstadoT(a, x, y), Caractere(ch)) =
             EstadoT(Append(l, Append(linha, [character |-> ch, foreground |-> x,
                                              background |-> y])), x, y)
    BY TerminalLeCaractere, Zenon DEF a
  <2>3. TerminalLe(EstadoT(a, fg, bg), car) =
          EstadoT(Append(l, Append(linha, Aparencia(cell))), fg, bg)
    <3> DEFINE ch == cell.character
    <3>1. ch \in STRING /\ fg \in Nat /\ bg \in Nat /\ car = Caractere(ch)
          /\ Aparencia(cell) = [character |-> ch, foreground |-> fg, background |-> bg]
      BY <1>4, <2>1
    <3> HIDE DEF a, ch, car
    <3>2. TerminalLe(EstadoT(a, fg, bg), Caractere(ch)) =
            EstadoT(Append(l, Append(linha, [character |-> ch, foreground |-> fg,
                                             background |-> bg])), fg, bg)
      BY <2>2, <3>1, Zenon
    <3> QED  BY <3>1, <3>2, Zenon
  <2> QED  BY <1>7, <2>3, Zenon
<1>9. /\ c.saida = Append(novas, car)
      /\ fg = FgMostrado(c.lastFg, c.lastBg) /\ bg = c.lastBg
  BY <1>3
<1> HIDE DEF c, fg, bg
<1>10. Segue(c, Append(l, Append(linha, Aparencia(cell))))
  BY <1>3, <1>4, <1>8, <1>9 DEF Segue
<1> QED  BY <1>10 DEF c

-----------------------------------------------------------------------------
(* The cells of a row, one after another.                                     *)

PassoCelulas(celulas, r, row, n) ==
    celulas = [x \in 0 .. n |-> IF x = 0 THEN r ELSE RenderCell(celulas[x - 1], row[x])]

Celulas(r, row) == CHOOSE celulas : PassoCelulas(celulas, r, row, Len(row))

LEMMA CelulasExiste ==
    ASSUME NEW r, NEW row, Len(row) \in Nat
    PROVE  PassoCelulas(Celulas(r, row), r, row, Len(row))
<1> DEFINE T == {n \in Nat : \E f : PassoCelulas(f, r, row, n)}
<1>1. 0 \in T
  <2>1. PassoCelulas([x \in 0 .. 0 |-> r], r, row, 0)
    BY DEF PassoCelulas
  <2> QED  BY <2>1
<1>2. ASSUME NEW n \in T
      PROVE  n + 1 \in T
  <2>1. PICK f : PassoCelulas(f, r, row, n)
    OBVIOUS
  <2> DEFINE g == [x \in 0 .. n + 1 |->
                     IF x = n + 1 THEN RenderCell(f[n], row[n + 1]) ELSE f[x]]
  <2>2. \A x \in 0 .. n + 1 :
           g[x] = IF x = 0 THEN r ELSE RenderCell(g[x - 1], row[x])
    BY <2>1 DEF PassoCelulas
  <2>3. PassoCelulas(g, r, row, n + 1)
    BY <2>2 DEF PassoCelulas
  <2> QED  BY <2>3
<1>3. T = Nat
  <2> HIDE DEF T
  <2>1. T \subseteq Nat
    BY DEF T
  <2> QED  BY <1>1, <1>2, <2>1, TodosOsNaturais
<1>4. Len(row) \in T
  BY <1>3
<1> QED  BY <1>4 DEF Celulas

LEMMA CelulasPasso ==
    ASSUME NEW r, NEW row, Len(row) \in Nat
    PROVE  /\ RenderCells(r, row) = Celulas(r, row)[Len(row)]
           /\ Celulas(r, row)[0] = r
           /\ \A x \in 1 .. Len(row) :
                 Celulas(r, row)[x] = RenderCell(Celulas(r, row)[x - 1], row[x])
<1>1. RenderCells(r, row) = Celulas(r, row)[Len(row)]
  BY DEF RenderCells, Celulas, PassoCelulas
<1>2. \A x \in 0 .. Len(row) :
         Celulas(r, row)[x] = IF x = 0 THEN r
                              ELSE RenderCell(Celulas(r, row)[x - 1], row[x])
  BY CelulasExiste DEF PassoCelulas
<1> QED  BY <1>1, <1>2

\* A row as it should look, up to the cell n.
Vista(row, n) == [x \in 1 .. n |-> Aparencia(row[x])]

LEMMA VistaMaisUma ==
    ASSUME NEW row \in Seq(Celula), NEW n \in Nat, n <= Len(row)
    PROVE  /\ Vista(row, n) \in Seq(Celula)
           /\ Vista(row, 0) = << >>
           /\ n + 1 <= Len(row) =>
                Append(Vista(row, n), Aparencia(row[n + 1])) = Vista(row, n + 1)
<1>1. \A x \in 1 .. Len(row) : Aparencia(row[x]) \in Celula
  BY AparenciaDaCelula
<1>2. ASSUME NEW m \in Nat, m <= Len(row)
      PROVE  /\ Vista(row, m) \in Seq(Celula) /\ Len(Vista(row, m)) = m
             /\ \A x \in 1 .. m : Vista(row, m)[x] = Aparencia(row[x])
  <2>1. Vista(row, m) \in [1 .. m -> Celula]
    BY <1>1, <1>2 DEF Vista
  <2>2. Vista(row, m) \in Seq(Celula)
    BY <1>2, <2>1, SeqDef
  <2>3. DOMAIN Vista(row, m) = 1 .. m
    BY DEF Vista
  <2> QED  BY <1>2, <2>2, <2>3, LenProperties DEF Vista
<1>3. Vista(row, 0) = << >>
  <2>1. Vista(row, 0) \in Seq(Celula) /\ Len(Vista(row, 0)) = 0
    BY <1>2
  <2> QED  BY <2>1, EmptySeq
<1>4. ASSUME n + 1 <= Len(row)
      PROVE  Append(Vista(row, n), Aparencia(row[n + 1])) = Vista(row, n + 1)
  <2> DEFINE v == Vista(row, n)
             w == Vista(row, n + 1)
             u == Append(v, Aparencia(row[n + 1]))
  <2>1. /\ v \in Seq(Celula) /\ Len(v) = n
        /\ \A x \in 1 .. n : v[x] = Aparencia(row[x])
    BY <1>2
  <2>2. /\ w \in Seq(Celula) /\ Len(w) = n + 1
        /\ \A x \in 1 .. n + 1 : w[x] = Aparencia(row[x])
    BY <1>2, <1>4
  <2>3. Aparencia(row[n + 1]) \in Celula
    BY <1>1, <1>4
  <2> HIDE DEF v, w
  <2>4. /\ u \in Seq(Celula) /\ Len(u) = n + 1
        /\ u[n + 1] = Aparencia(row[n + 1])
        /\ \A x \in 1 .. n : u[x] = v[x]
    BY <2>1, <2>3
  <2> HIDE DEF u
  <2>5. \A x \in 1 .. Len(u) : u[x] = w[x]
    BY <2>1, <2>2, <2>4
  <2>6. u = w
    BY <2>2, <2>4, <2>5, SeqEqual
  <2> QED  BY <2>6 DEF u, v, w
<1> QED  BY <1>2, <1>3, <1>4

LEMMA UmaLinhaDeCelulas ==
    ASSUME NEW l \in Seq(Seq(Celula)), NEW r, Segue(r, Append(l, << >>)),
           NEW row \in Seq(Celula)
    PROVE  Segue(RenderCells(r, row), Append(l, Vista(row, Len(row))))
<1> DEFINE T == {n \in Nat : n <= Len(row) =>
                               Segue(Celulas(r, row)[n], Append(l, Vista(row, n)))}
<1>0. Len(row) \in Nat
  OBVIOUS
<1>1. /\ RenderCells(r, row) = Celulas(r, row)[Len(row)]
      /\ Celulas(r, row)[0] = r
      /\ \A x \in 1 .. Len(row) :
            Celulas(r, row)[x] = RenderCell(Celulas(r, row)[x - 1], row[x])
  BY <1>0, CelulasPasso
<1>2. 0 \in T
  <2>1. Vista(row, 0) = << >>
    BY <1>0, VistaMaisUma
  <2> QED  BY <1>1, <2>1
<1>3. ASSUME NEW n \in T
      PROVE  n + 1 \in T
  <2>1. SUFFICES ASSUME n + 1 <= Len(row)
                 PROVE  Segue(Celulas(r, row)[n + 1], Append(l, Vista(row, n + 1)))
    OBVIOUS
  <2>2. n \in Nat /\ n <= Len(row) /\ n + 1 \in 1 .. Len(row) /\ (n + 1) - 1 = n
    BY <1>0, <2>1
  <2>3. Segue(Celulas(r, row)[n], Append(l, Vista(row, n)))
    BY <2>2
  <2>4. /\ Vista(row, n) \in Seq(Celula) /\ row[n + 1] \in Celula
        /\ Append(Vista(row, n), Aparencia(row[n + 1])) = Vista(row, n + 1)
    BY <2>1, <2>2, VistaMaisUma
  <2>5. Celulas(r, row)[n + 1] = RenderCell(Celulas(r, row)[n], row[n + 1])
    BY <1>1, <2>2
  <2>6. Segue(RenderCell(Celulas(r, row)[n], row[n + 1]),
              Append(l, Append(Vista(row, n), Aparencia(row[n + 1]))))
    BY <2>3, <2>4, UmaCelula
  <2> QED  BY <2>4, <2>5, <2>6
<1>4. Len(row) \in T
  <2> HIDE DEF T
  <2>1. T \subseteq Nat
    BY DEF T
  <2> QED  BY <1>0, <1>2, <1>3, <2>1, TodosOsNaturais
<1> QED  BY <1>1, <1>4

-----------------------------------------------------------------------------
(* The rows of a buffer, one after another.                                   *)

InicioR == [saida |-> << >>, lastFg |-> Nenhuma, lastBg |-> Nenhuma]

PassoLinhas(ate, linhas, n) ==
    ate = [y \in 0 .. n |-> IF y = 0 THEN InicioR ELSE RenderRow(ate[y - 1], linhas[y])]

Ate(linhas) == CHOOSE ate : PassoLinhas(ate, linhas, Len(linhas))

LEMMA AteExiste ==
    ASSUME NEW linhas, Len(linhas) \in Nat
    PROVE  PassoLinhas(Ate(linhas), linhas, Len(linhas))
<1> DEFINE T == {n \in Nat : \E f : PassoLinhas(f, linhas, n)}
<1>1. 0 \in T
  <2>1. PassoLinhas([y \in 0 .. 0 |-> InicioR], linhas, 0)
    BY DEF PassoLinhas
  <2> QED  BY <2>1
<1>2. ASSUME NEW n \in T
      PROVE  n + 1 \in T
  <2>1. PICK f : PassoLinhas(f, linhas, n)
    OBVIOUS
  <2> DEFINE g == [y \in 0 .. n + 1 |->
                     IF y = n + 1 THEN RenderRow(f[n], linhas[n + 1]) ELSE f[y]]
  <2>2. \A y \in 0 .. n + 1 :
           g[y] = IF y = 0 THEN InicioR ELSE RenderRow(g[y - 1], linhas[y])
    BY <2>1 DEF PassoLinhas
  <2>3. PassoLinhas(g, linhas, n + 1)
    BY <2>2 DEF PassoLinhas
  <2> QED  BY <2>3
<1>3. T = Nat
  <2> HIDE DEF T
  <2>1. T \subseteq Nat
    BY DEF T
  <2> QED  BY <1>1, <1>2, <2>1, TodosOsNaturais
<1>4. Len(linhas) \in T
  BY <1>3
<1> QED  BY <1>4 DEF Ate

LEMMA AtePasso ==
    ASSUME NEW linhas, Len(linhas) \in Nat
    PROVE  /\ RenderRows(linhas) = Ate(linhas)[Len(linhas)]
           /\ Ate(linhas)[0] = InicioR
           /\ \A y \in 1 .. Len(linhas) :
                 Ate(linhas)[y] = RenderRow(Ate(linhas)[y - 1], linhas[y])
<1>1. RenderRows(linhas) = Ate(linhas)[Len(linhas)]
  BY DEF RenderRows, Ate, PassoLinhas, InicioR
<1>2. \A y \in 0 .. Len(linhas) :
         Ate(linhas)[y] = IF y = 0 THEN InicioR
                          ELSE RenderRow(Ate(linhas)[y - 1], linhas[y])
  BY AteExiste DEF PassoLinhas
<1> QED  BY <1>1, <1>2

\* Adding two items is appending them.
LEMMA MaisDoisItens ==
    ASSUME NEW S, NEW s \in Seq(S), NEW i \in S, NEW j \in S
    PROVE  s \o <<i, j>> = Append(Append(s, i), j)
<1> DEFINE a == s \o <<i, j>>
           b == Append(s, i)
           c == Append(b, j)
           n == Len(s)
<1>1. /\ a \in Seq(S) /\ Len(a) = n + 2 /\ n \in Nat
      /\ \A k \in 1 .. n + 2 : a[k] = IF k <= n THEN s[k] ELSE <<i, j>>[k - n]
  <2>1. <<i, j>> \in Seq(S) /\ Len(<<i, j>>) = 2 /\ n \in Nat
    OBVIOUS
  <2> QED  BY <2>1, ConcatProperties
<1>2. /\ b \in Seq(S) /\ Len(b) = n + 1 /\ b[n + 1] = i
      /\ \A k \in 1 .. n : b[k] = s[k]
  OBVIOUS
<1> HIDE DEF a, b
<1>3. /\ c \in Seq(S) /\ Len(c) = n + 2 /\ c[n + 2] = j
      /\ \A k \in 1 .. n + 1 : c[k] = b[k]
  BY <1>1, <1>2
<1> HIDE DEF c, n
<1>4. ASSUME NEW k \in 1 .. n + 2
      PROVE  a[k] = c[k]
  <2>1. CASE k \in 1 .. n
    BY <1>1, <1>2, <1>3, <2>1
  <2>2. CASE k = n + 1
    <3>1. a[k] = <<i, j>>[1]
      BY <1>1, <2>2
    <3> QED  BY <1>1, <1>2, <1>3, <2>2, <3>1
  <2>3. CASE k = n + 2
    <3>1. a[k] = <<i, j>>[2]
      BY <1>1, <2>3
    <3> QED  BY <1>3, <2>3, <3>1
  <2> QED  BY <1>1, <2>1, <2>2, <2>3
<1>5. a = c
  BY <1>1, <1>3, <1>4, SeqEqual
<1> QED  BY <1>5 DEF a, b, c

LEMMA SemOUltimo ==
    ASSUME NEW S, NEW s \in Seq(S), NEW i \in S
    PROVE  Front(Append(s, i)) = s
<1> DEFINE a == Append(s, i)
           f == SubSeq(a, 1, Len(a) - 1)
<1>1. /\ a \in Seq(S) /\ Len(a) = Len(s) + 1 /\ Len(s) \in Nat
      /\ \A k \in 1 .. Len(s) : a[k] = s[k]
  OBVIOUS
<1> HIDE DEF a
<1>2. f \in Seq(S) /\ Len(f) = Len(s) /\ \A k \in 1 .. Len(s) : f[k] = a[k]
  BY <1>1
<1> HIDE DEF f
<1>3. f = s
  BY <1>1, <1>2, SeqEqual
<1> QED  BY <1>3 DEF Front, f, a

(* A row: its cells, the reset, and the newline that opens the next one.      *)
LEMMA UmaLinha ==
    ASSUME NEW l \in Seq(Seq(Celula)), NEW r, Segue(r, Append(l, << >>)),
           NEW row \in Seq(Celula)
    PROVE  LET v == Append(l, Vista(row, Len(row)))
               q == RenderRow(r, row)
           IN  /\ Segue(q, Append(v, << >>))
               /\ Terminal(Front(q.saida)) = EstadoT(v, COLOR_DEFAULT, COLOR_DEFAULT)
<1> DEFINE v == Append(l, Vista(row, Len(row)))
           c == RenderCells(r, row)
           u == Append(c.saida, Reset)
           w == Append(u, NovaLinha)
           q == RenderRow(r, row)
<1>1. Segue(c, v)
  BY UmaLinhaDeCelulas
<1> HIDE DEF c, v
<1>2. PICK f, b \in Nat : Terminal(c.saida) = EstadoT(v, f, b)
  BY <1>1 DEF Segue
<1>3. c.saida \in Textos /\ Reset \in Itens /\ NovaLinha \in Itens
  BY <1>1 DEF Segue, Memorias, Itens
<1>4. u \in Textos /\ w \in Textos
  <2>1. u \in Textos
    BY <1>3, MaisUmItem
  <2> HIDE DEF u
  <2> QED  BY <1>3, <2>1, MaisUmItem
<1>5. Terminal(u) = EstadoT(v, COLOR_DEFAULT, COLOR_DEFAULT)
  <2>1. Terminal(u) = TerminalLe(EstadoT(v, f, b), Reset)
    BY <1>2, <1>3, TextoMaisUm
  <2> QED  BY <2>1, TerminalLeCores
<1>6. q.saida = w /\ q \in Memorias /\ q.lastFg = Nenhuma
  <2>1. c.saida \o <<Reset, NovaLinha>> = w
    <3>1. c.saida \in Seq(Itens)
      BY <1>3 DEF Textos
    <3> HIDE DEF c
    <3>2. \A t \in Seq(Itens) : t \o <<Reset, NovaLinha>> = Append(Append(t, Reset), NovaLinha)
      BY <1>3, MaisDoisItens
    <3>3. c.saida \o <<Reset, NovaLinha>> = Append(Append(c.saida, Reset), NovaLinha)
      BY <3>1, <3>2, Zenon
    <3> QED  BY <3>3, Zenon DEF w, u
  <2>2. q = [saida |-> w, lastFg |-> Nenhuma, lastBg |-> Nenhuma]
    BY <2>1 DEF RenderRow, c
  <2> HIDE DEF w, q
  <2> QED  BY <1>4, <2>2 DEF Memorias
<1> HIDE DEF u, q
<1>7. Terminal(w) = EstadoT(Append(v, << >>), COLOR_DEFAULT, COLOR_DEFAULT)
  BY <1>3, <1>4, <1>5, TextoMaisUm, TerminalLeLinha
<1>8. Front(w) = u
  BY <1>3, <1>4, SemOUltimo DEF Textos
<1> HIDE DEF w
<1>9. Segue(q, Append(v, << >>))
  <2>1. COLOR_DEFAULT \in Nat
    BY DEF COLOR_DEFAULT
  <2> QED  BY <1>6, <1>7, <2>1 DEF Segue
<1> QED  BY <1>5, <1>6, <1>8, <1>9 DEF q, v

\* The first n rows of a buffer as they should look.
Vistas(linhas, n) == [y \in 1 .. n |-> Vista(linhas[y], Len(linhas[y]))]

LEMMA VistasMaisUma ==
    ASSUME NEW linhas \in Seq(Seq(Celula)), NEW n \in Nat, n <= Len(linhas)
    PROVE  /\ Vistas(linhas, n) \in Seq(Seq(Celula))
           /\ Vistas(linhas, 0) = << >>
           /\ n + 1 <= Len(linhas) =>
                Append(Vistas(linhas, n), Vista(linhas[n + 1], Len(linhas[n + 1])))
                  = Vistas(linhas, n + 1)
<1>1. ASSUME NEW y \in 1 .. Len(linhas)
      PROVE  Vista(linhas[y], Len(linhas[y])) \in Seq(Celula)
  <2>1. linhas[y] \in Seq(Celula)
    OBVIOUS
  <2>2. Len(linhas[y]) \in Nat /\ Len(linhas[y]) <= Len(linhas[y])
    BY <2>1
  <2> QED  BY <2>1, <2>2, VistaMaisUma
<1>2. ASSUME NEW m \in Nat, m <= Len(linhas)
      PROVE  /\ Vistas(linhas, m) \in Seq(Seq(Celula)) /\ Len(Vistas(linhas, m)) = m
             /\ \A y \in 1 .. m :
                   Vistas(linhas, m)[y] = Vista(linhas[y], Len(linhas[y]))
  <2>1. Vistas(linhas, m) \in [1 .. m -> Seq(Celula)]
    BY <1>1, <1>2 DEF Vistas
  <2>2. Vistas(linhas, m) \in Seq(Seq(Celula))
    BY <1>2, <2>1, SeqDef
  <2>3. DOMAIN Vistas(linhas, m) = 1 .. m
    BY DEF Vistas
  <2> QED  BY <1>2, <2>2, <2>3, LenProperties DEF Vistas
<1>3. Vistas(linhas, 0) = << >>
  <2>1. Vistas(linhas, 0) \in Seq(Seq(Celula)) /\ Len(Vistas(linhas, 0)) = 0
    BY <1>2
  <2> QED  BY <2>1, EmptySeq
<1>4. ASSUME n + 1 <= Len(linhas)
      PROVE  Append(Vistas(linhas, n), Vista(linhas[n + 1], Len(linhas[n + 1])))
               = Vistas(linhas, n + 1)
  <2> DEFINE e == Vista(linhas[n + 1], Len(linhas[n + 1]))
             v == Vistas(linhas, n)
             w == Vistas(linhas, n + 1)
             u == Append(v, e)
  <2>1. /\ v \in Seq(Seq(Celula)) /\ Len(v) = n
        /\ \A y \in 1 .. n : v[y] = Vista(linhas[y], Len(linhas[y]))
    BY <1>2
  <2>2. /\ w \in Seq(Seq(Celula)) /\ Len(w) = n + 1 /\ w[n + 1] = e
        /\ \A y \in 1 .. n : w[y] = Vista(linhas[y], Len(linhas[y]))
    BY <1>2, <1>4
  <2>3. e \in Seq(Celula)
    BY <1>1, <1>4
  <2> HIDE DEF e, v, w
  <2>4. /\ u \in Seq(Seq(Celula)) /\ Len(u) = n + 1 /\ u[n + 1] = e
        /\ \A y \in 1 .. n : u[y] = v[y]
    BY <2>1, <2>3
  <2> HIDE DEF u
  <2>5. \A y \in 1 .. Len(u) : u[y] = w[y]
    BY <2>1, <2>2, <2>4
  <2>6. u = w
    BY <2>2, <2>4, <2>5, SeqEqual
  <2> QED  BY <2>6 DEF e, u, v, w
<1> QED  BY <1>2, <1>3, <1>4

LEMMA LinhasMostradas ==
    ASSUME NEW linhas \in Seq(Seq(Celula)), NEW m \in Nat, m <= Len(linhas)
    PROVE  Segue(Ate(linhas)[m], Append(Vistas(linhas, m), << >>))
<1> DEFINE T == {n \in Nat : n <= Len(linhas) =>
                   Segue(Ate(linhas)[n], Append(Vistas(linhas, n), << >>))}
<1>0. Len(linhas) \in Nat
  OBVIOUS
<1>1. /\ Ate(linhas)[0] = InicioR
      /\ \A y \in 1 .. Len(linhas) :
            Ate(linhas)[y] = RenderRow(Ate(linhas)[y - 1], linhas[y])
  BY <1>0, AtePasso
<1>2. 0 \in T
  <2>1. Vistas(linhas, 0) = << >>
    BY <1>0, VistasMaisUma
  <2>2. Append(<< >>, << >>) = << << >> >>
    OBVIOUS
  <2>3. InicioR \in Memorias
    BY DEF InicioR, Memorias, Textos
  <2>4. Terminal(InicioR.saida) = EstadoT(<< << >> >>, COLOR_DEFAULT, COLOR_DEFAULT)
    BY TextoVazio DEF InicioR, InicioT
  <2>5. COLOR_DEFAULT \in Nat /\ InicioR.lastFg = Nenhuma
    BY DEF COLOR_DEFAULT, InicioR
  <2>6. Segue(InicioR, << << >> >>)
    BY <2>3, <2>4, <2>5 DEF Segue
  <2> QED  BY <1>1, <2>1, <2>2, <2>6
<1>3. ASSUME NEW n \in T
      PROVE  n + 1 \in T
  <2>1. SUFFICES ASSUME n + 1 <= Len(linhas)
                 PROVE  Segue(Ate(linhas)[n + 1], Append(Vistas(linhas, n + 1), << >>))
    OBVIOUS
  <2>2. n \in Nat /\ n <= Len(linhas) /\ n + 1 \in 1 .. Len(linhas) /\ (n + 1) - 1 = n
    BY <1>0, <2>1
  <2>3. Segue(Ate(linhas)[n], Append(Vistas(linhas, n), << >>))
    BY <2>2
  <2>4. /\ Vistas(linhas, n) \in Seq(Seq(Celula)) /\ linhas[n + 1] \in Seq(Celula)
        /\ Append(Vistas(linhas, n), Vista(linhas[n + 1], Len(linhas[n + 1])))
             = Vistas(linhas, n + 1)
    BY <2>1, <2>2, VistasMaisUma
  <2>5. Ate(linhas)[n + 1] = RenderRow(Ate(linhas)[n], linhas[n + 1])
    BY <1>1, <2>2
  <2> QED  BY <2>3, <2>4, <2>5, UmaLinha
<1>4. m \in T
  <2> HIDE DEF T
  <2>1. T \subseteq Nat
    BY DEF T
  <2> QED  BY <1>2, <1>3, <2>1, TodosOsNaturais
<1> QED  BY <1>4

(* Whatever the size of a buffer and the colours of its cells, the terminal   *)
(* that reads the text of renderScreen (ui.c:512-574) shows the buffer cell   *)
(* for cell, although the escape sequences of repeated colours are left out,  *)
(* and is left with its own colours.                                          *)
THEOREM TerminalSempreFiel ==
    ASSUME NEW linhas \in Buffers
    PROVE  MostraFielmente(linhas)
<1> DEFINE n == Len(linhas)
           k == n - 1
           row == linhas[n]
           r == Ate(linhas)[k]
           l == Vistas(linhas, k)
<1>1. /\ linhas \in Seq(Seq(Celula)) /\ n \in Nat /\ n \in 1 .. n
      /\ k \in Nat /\ k <= n /\ k + 1 = n /\ row \in Seq(Celula)
  <2>1. linhas \in Seq(Seq(Celula)) /\ linhas # << >>
    BY DEF Buffers
  <2>2. n \in Nat \ {0}
    BY <2>1, EmptySeq
  <2>3. row \in Seq(Celula)
    BY <2>1, <2>2
  <2> QED  BY <2>1, <2>2, <2>3
<1>2. Segue(r, Append(l, << >>))
  BY <1>1, LinhasMostradas
<1>3. /\ l \in Seq(Seq(Celula))
      /\ Append(l, Vista(row, Len(row))) = Vistas(linhas, n)
  <2> HIDE DEF k
  <2>1. k + 1 <= n
    BY <1>1
  <2>2. Append(l, Vista(linhas[k + 1], Len(linhas[k + 1]))) = Vistas(linhas, k + 1)
    BY <1>1, <2>1, VistasMaisUma
  <2> QED  BY <1>1, <2>2, VistasMaisUma
<1>4. RenderRows(linhas) = RenderRow(r, row)
  BY <1>1, AtePasso
<1> HIDE DEF r, l, row
<1>5. Terminal(RenderScreen(linhas))
        = EstadoT(Vistas(linhas, n), COLOR_DEFAULT, COLOR_DEFAULT)
  <2>1. Terminal(Front(RenderRow(r, row).saida))
          = EstadoT(Append(l, Vista(row, Len(row))), COLOR_DEFAULT, COLOR_DEFAULT)
    BY <1>1, <1>2, <1>3, UmaLinha
  <2> QED  BY <1>3, <1>4, <2>1 DEF RenderScreen
<1>6. Vistas(linhas, n) =
        [y \in DOMAIN linhas |-> [x \in DOMAIN linhas[y] |-> Aparencia(linhas[y][x])]]
  <2>1. DOMAIN linhas = 1 .. n
    BY <1>1
  <2>2. ASSUME NEW y \in 1 .. n
        PROVE  DOMAIN linhas[y] = 1 .. Len(linhas[y])
    <3>1. linhas[y] \in Seq(Celula)
      BY <1>1
    <3> QED  BY <3>1
  <2> QED  BY <2>1, <2>2 DEF Vistas, Vista
<1> QED  BY <1>5, <1>6 DEF MostraFielmente, EstadoT
=============================================================================
