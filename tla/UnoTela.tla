------------------------------- MODULE UnoTela -------------------------------
(* The client's screen (UnoClient/src/ui.c): the geometry of the board with   *)
(* the program's own constants, and the text with which a drawn buffer is     *)
(* sent to the terminal.  A drawing is the rectangles it fills; the           *)
(* characters and colours in them are left out.                               *)
EXTENDS Integers, Sequences, SequencesExt

VERTICAL_MARGIN == 10
SIDE_WIDTH == 15
TOP_HEIGHT == 10
BOTTOM_HEIGHT == 10
CARD_WIDTH == 5
CARD_HEIGHT == 5
CARD_GAP == 2
MAX_QTD_CARTAS_JOGADOR == 16

Retangulo(x, y, w, h) == [x |-> x, y |-> y, width |-> w, height |-> h]

TelaNula == [width |-> 0, height |-> 0]

(* The buffer made for a window: VERTICAL_MARGIN rows less than it has.  A    *)
(* console that cannot be asked counts as a window without rows; there may    *)
(* be no memory.                                                              *)
GetScreenSize(janela, haMemoria) ==
    LET h == janela.height - VERTICAL_MARGIN
    IN  IF h <= 0 \/ ~haMemoria THEN TelaNula
        ELSE [width |-> janela.width, height |-> h]

\* Mutant: only the height is looked at.
ValidarAltura(tela) == tela.height >= 40

ValidarTela(tela) == tela.height >= 40 /\ tela.width >= 150

\* The zones in which something is drawn; left and right stay empty.
CreateBoardLayout(tela) ==
    [top    |-> Retangulo(1, 1, tela.width - 1, TOP_HEIGHT),
     bottom |-> Retangulo(1, tela.height - BOTTOM_HEIGHT, tela.width - 2, BOTTOM_HEIGHT),
     center |-> Retangulo(SIDE_WIDTH, TOP_HEIGHT, tela.width - 2 * SIDE_WIDTH,
                          tela.height - TOP_HEIGHT - BOTTOM_HEIGHT)]

(* drawZoneBorder for the three zones: a line at the row that the height of   *)
(* the top zone names, one at the top row of the bottom zone, and the four    *)
(* sides of a frame in the centre.                                            *)
DrawBoard(layout) ==
    LET c == layout.center
        left == c.x + 20    right  == c.x + c.width - 20
        top  == c.y + 5     bottom == c.y + c.height - 5
    IN  <<Retangulo(layout.top.x, layout.top.height, layout.top.width - 1, 1),
          Retangulo(layout.bottom.x, layout.bottom.y, layout.bottom.width, 1),
          Retangulo(left, top, right - left + 1, 1),
          Retangulo(left, bottom, right - left + 1, 1),
          Retangulo(left, top + 1, 1, bottom - top - 1),
          Retangulo(right, top + 1, 1, bottom - top - 1)>>

DrawCard(x, y) == Retangulo(x, y, CARD_WIDTH, CARD_HEIGHT)

DrawPlayerHand(zona, qtdCartas) ==
    [i \in 1 .. qtdCartas |->
        DrawCard(zona.x + zona.width \div 10 + (i - 1) * (CARD_WIDTH + CARD_GAP),
                 zona.y + zona.height \div 5)]

DrawDiscardPile(zona) ==
    DrawCard(zona.x + (zona.width - CARD_WIDTH) \div 2,
             zona.y + (zona.height - CARD_HEIGHT) \div 2)

(* The lengths of the four lines of the HUD at their longest: a round of ten  *)
(* digits, a name of 23 characters and hands of two digits.                   *)
LinhasDoHUD == <<67, 24, 15, 69>>

DrawHUD(zona) ==
    [i \in DOMAIN LinhasDoHUD |->
        Retangulo(zona.x + 2, zona.y + 1 + 2 * (i - 1), LinhasDoHUD[i], 1)]

\* The status line "Jogada invalida!", below them.
DrawStatus(zona) == Retangulo(zona.x + 2, zona.y + 9, 16, 1)

\* One round of the main loop draws these, in this order.
Desenho(tela, qtdCartas) ==
    LET layout == CreateBoardLayout(tela)
    IN  DrawBoard(layout) \o <<DrawDiscardPile(layout.center)>>
            \o DrawPlayerHand(layout.bottom, qtdCartas) \o DrawHUD(layout.top)

Dentro(a, b) ==
    /\ b.x <= a.x /\ a.x + a.width <= b.x + b.width
    /\ b.y <= a.y /\ a.y + a.height <= b.y + b.height

Separados(a, b) ==
    \/ a.x + a.width <= b.x \/ b.x + b.width <= a.x
    \/ a.y + a.height <= b.y \/ b.y + b.height <= a.y

\* What drawBoardBorder leaves free.
Interior(tela) == Retangulo(1, 1, tela.width - 2, tela.height - 2)

(* Nothing is cut off by setPixel, nothing is drawn over the border, and no   *)
(* two things over each other, with one exception: the status line lies on    *)
(* the line under the top zone.                                               *)
TudoCabe(tela, qtdCartas) ==
    LET d == Desenho(tela, qtdCartas)
        status == DrawStatus(CreateBoardLayout(tela).top)
    IN  /\ \A i \in DOMAIN d : Dentro(d[i], Interior(tela))
        /\ \A i, j \in DOMAIN d : i < j => Separados(d[i], d[j])
        /\ Dentro(status, Interior(tela))
        /\ \A i \in DOMAIN d : i > 1 => Separados(status, d[i])

-----------------------------------------------------------------------------
(* renderScreen.  A cell has a character and two colours, of which 0 is "the  *)
(* terminal's own"; the text is a sequence of characters and escape sequences.*)

COLOR_DEFAULT == 0
COLOR_WHITE == 37

\* A Cell of the buffer, and the buffers: rows of cells, at least one.
Celula == [character : STRING, foreground : Nat, background : Nat]
Buffers == Seq(Seq(Celula)) \ {<< >>}

\* No colour is negative.
Nenhuma == -1

\* "\033[0m", "\033[%d;%dm" and what is printed.
Reset == <<"reset">>
Cores(fg, bg) == <<"cores", fg, bg>>
Caractere(c) == <<"caractere", c>>
NovaLinha == <<"linha">>

(* One cell: an escape sequence only if its colours are not those of the cell *)
(* before, remembered in lastFg and lastBg.                                   *)
RenderCell(r, cell) ==
    LET sequence ==
          IF cell.foreground = r.lastFg /\ cell.background = r.lastBg THEN << >>
          ELSE IF cell.foreground = COLOR_DEFAULT /\ cell.background = COLOR_DEFAULT
            THEN <<Reset>>
            ELSE <<Cores(IF cell.foreground = COLOR_DEFAULT THEN COLOR_WHITE
                                                            ELSE cell.foreground,
                         cell.background)>>
    IN  [saida  |-> r.saida \o sequence \o <<Caractere(cell.character)>>,
         lastFg |-> cell.foreground, lastBg |-> cell.background]

\* What is remembered and has been written after the cells of a row.
RenderCells(r, row) ==
    LET celulas[x \in 0 .. Len(row)] ==
          IF x = 0 THEN r ELSE RenderCell(celulas[x - 1], row[x])
    IN  celulas[Len(row)]

\* Mutant: the colours are still remembered after the reset at the end of a row.
RenderRowComMemoria(r, row) ==
    [RenderCells(r, row) EXCEPT !.saida = @ \o <<Reset, NovaLinha>>]

RenderRow(r, row) ==
    [saida  |-> RenderCells(r, row).saida \o <<Reset, NovaLinha>>,
     lastFg |-> Nenhuma, lastBg |-> Nenhuma]

RenderRows(linhas) ==
    LET ate[y \in 0 .. Len(linhas)] ==
          IF y = 0 THEN [saida |-> << >>, lastFg |-> Nenhuma, lastBg |-> Nenhuma]
                   ELSE RenderRow(ate[y - 1], linhas[y])
    IN  ate[Len(linhas)]

\* The last row has no newline.
RenderScreen(linhas) == Front(RenderRows(linhas).saida)

(* The terminal: it prints with the colours of the last escape sequence.      *)
TerminalLe(t, item) ==
    CASE item = Reset -> [t EXCEPT !.fg = COLOR_DEFAULT, !.bg = COLOR_DEFAULT]
      [] item[1] = "cores" -> [t EXCEPT !.fg = item[2], !.bg = item[3]]
      [] item = NovaLinha -> [t EXCEPT !.linhas = Append(@, << >>)]
      [] OTHER -> [t EXCEPT !.linhas[Len(t.linhas)] =
                       Append(@, [character |-> item[2], foreground |-> t.fg,
                                  background |-> t.bg])]

Terminal(texto) ==
    LET inicio == [linhas |-> << << >> >>, fg |-> COLOR_DEFAULT, bg |-> COLOR_DEFAULT]
        lido[n \in 0 .. Len(texto)] ==
          IF n = 0 THEN inicio ELSE TerminalLe(lido[n - 1], texto[n])
    IN  lido[Len(texto)]

(* What a cell should look like: on a coloured background the terminal's own  *)
(* foreground becomes white.                                                  *)
Aparencia(cell) ==
    IF cell.foreground = COLOR_DEFAULT /\ cell.background # COLOR_DEFAULT
      THEN [cell EXCEPT !.foreground = COLOR_WHITE] ELSE cell

(* The terminal shows the screen, cell for cell, and has its own colours again *)
(* for what the window has below it.                                          *)
MostraFielmente(linhas) ==
    Terminal(RenderScreen(linhas)) =
        [linhas |-> [y \in DOMAIN linhas |->
                        [x \in DOMAIN linhas[y] |-> Aparencia(linhas[y][x])]],
         fg |-> COLOR_DEFAULT, bg |-> COLOR_DEFAULT]
=============================================================================
